---- MODULE Spec2Model ----
(***************************************************************************)
(* Training-load analytics engine of strava-stats:                         *)
(*   - calculateFitnessMetrics / activitiesToDailyLoads                    *)
(*       (webapp/src/lib/fitnessModel.ts)                                  *)
(*   - calculatePowerCurve / calculatePowerCurveSync (lib/powerCurve)      *)
(*   - computePrimaryCurve, the caller of both (PowerCurveView)            *)
(*   - estimateFTP, getCurrentFitness, getCurrentForm, getFitnessTrend     *)
(*   - direct calls of calculateBestPowerForDuration, calculateTSS and     *)
(*     calculateTRIMP on arguments drawn from bounded sets                 *)
(*   - the scan of calculateBestPowerForDuration one iteration per step,   *)
(*     and direct calls of estimateBestPowerForDuration                    *)
(*   - the watcher of PowerCurveView with several invocations of           *)
(*     computePrimaryCurve suspended at once                               *)
(*                                                                         *)
(* Numbers.  JavaScript doubles are modelled in fixed point:               *)
(*   - ctl / atl are kept in thousandths (the un-rounded running state),   *)
(*     every product being rounded to the nearest thousandth;              *)
(*   - the emitted ctl / atl / tsb are in tenths (Math.round(x*10)/10);    *)
(*   - loads and watts are integers.                                       *)
(* Dates.  A "YYYY-MM-DD" string is the number of its day; a Date object   *)
(* is an instant in hours since day 0, 00:00 UTC.  Parsing, formatting     *)
(* and setDate are modelled by what they do (UTC parse, UTC format,        *)
(* local-time day arithmetic in the host's time zone).                     *)
(***************************************************************************)
EXTENDS Integers, Sequences, FiniteSets, TLC

VARIABLES
    \* ---- calculateFitnessMetrics -------------------------------------
    dailyLoads,     \* argument: sequence of [date, load]
    cfg,            \* argument merged over DEFAULT_CONFIG
    tz,             \* the host's time zone (environment)
    fpc,            \* "idle" | "loop" | "done"
    currentDate,    \* local Date object of the loop (instant, hours)
    ctl, atl,       \* un-rounded running state, in thousandths
    results,        \* FitnessMetrics[] built so far
    \* ---- activitiesToDailyLoads --------------------------------------
    loadActs,       \* argument: sequence of ActivityForLoad
    lpc,            \* "idle" | "group" | "score" | "done"
    dailyActivities,\* Map<string, ActivityForLoad[]> in insertion order
    loadOut,        \* DailyTrainingLoad[] (pushed, then sorted)
    \* ---- computePrimaryCurve / calculatePowerCurve -------------------
    activities,     \* the filtered Activity[] handed to both entry points
    cpc,            \* "idle" | "awaiting" | "done"
    primaryCurve,   \* what the view displays
    syncCurve,      \* result of calculatePowerCurveSync
    asyncCurve,     \* result of calculatePowerCurve
    fetchLog,       \* the requests issued to getPowerStreamsForActivities
    fetchOutcome,   \* what the fetch answered
    ftpOut,         \* what estimateFTP returned for the displayed curve
    \* ---- getCurrentFitness / getCurrentForm / getFitnessTrend ---------
    fitStats,       \* what the three accessors returned
    \* ---- calculateBestPowerForDuration -------------------------------
    argTime,        \* argument timeData: the time stream, seconds
    argPower,       \* argument powerData: the power stream, watts or null
    argTarget,      \* argument targetDurationSeconds
    wpc,            \* "idle" | "done"
    bestOut,        \* the returned number | null
    \* ---- calculateTSS / calculateTRIMP / one activity's load ----------
    scoreIn,        \* arguments: an activity and the options
    spc,            \* "idle" | "done"
    scoreOut,       \* the returned numbers
    \* ---- the scan of calculateBestPowerForDuration, step by step ------
    scanTime,       \* argument timeData
    scanPower,      \* argument powerData
    scanTarget,     \* argument targetDurationSeconds
    kpc,            \* "idle" | "scan" | "done"
    scanEnd,        \* windowEnd of the coming iteration (1-based)
    scanStart,      \* windowStart (1-based)
    scanBest,       \* bestAvgPower as the fraction <<sum, n>>
    scanOut,        \* the returned number | null
    \* ---- estimateBestPowerForDuration ---------------------------------
    estActivity,    \* argument activity
    estSeconds,     \* argument durationSeconds
    epc,            \* "idle" | "done"
    estOut,         \* the returned number | null
    \* ---- PowerCurveView: the watcher and its invocations ---------------
    storeActivities,\* activitiesStore.allActivities
    selectedYear,   \* ref selectedYear (NULL for null)
    primaryPeriod,  \* ref primaryPeriod
    viewCurve,      \* ref primaryCurve of the view
    calculatingPrimary, \* ref calculatingPrimary
    pending,        \* invocations suspended at the await of line 77
    invocations,    \* how many times the watcher has fired
    vpc             \* "setup" | "watching"

fitVars   == <<dailyLoads, cfg, tz, fpc, currentDate, ctl, atl, results,
               fitStats>>
loadVars  == <<loadActs, lpc, dailyActivities, loadOut>>
curveVars == <<activities, cpc, primaryCurve, syncCurve, asyncCurve,
               fetchLog, fetchOutcome, ftpOut>>
winVars   == <<argTime, argPower, argTarget, wpc, bestOut>>
scoreVars == <<scoreIn, spc, scoreOut>>
scanVars  == <<scanTime, scanPower, scanTarget, kpc, scanEnd, scanStart,
               scanBest, scanOut>>
estVars   == <<estActivity, estSeconds, epc, estOut>>
viewVars  == <<storeActivities, selectedYear, primaryPeriod, viewCurve,
               calculatingPrimary, pending, invocations, vpc>>
vars      == <<fitVars, loadVars, curveVars, winVars, scoreVars,
               scanVars, estVars, viewVars>>

\* null / undefined of a nullable numeric field
NULL == -1

-----------------------------------------------------------------------------
(***************************************************************************)
(* Generic helpers                                                         *)
(***************************************************************************)

\* Math.round on the rational n / d (d > 0): floor(n/d + 1/2)
RoundDiv(n, d) == (2 * n + d) \div (2 * d)

Max2(a, b) == IF a >= b THEN a ELSE b
Min2(a, b) == IF a <= b THEN a ELSE b

RECURSIVE SeqSum(_)
SeqSum(s) == IF s = <<>> THEN 0 ELSE Head(s) + SeqSum(Tail(s))

\* all sequences over S of length 0..n
SeqsUpTo(S, n) == UNION { [1..k -> S] : k \in 0..n }

-----------------------------------------------------------------------------
(***************************************************************************)
(* Date: parsing, formatting, local-time arithmetic                        *)
(***************************************************************************)

\* new Date("YYYY-MM-DD"): a date-only ISO string is parsed as UTC midnight
ParseDate(d) == d * 24

\* date.toISOString().split('T')[0]: the UTC calendar day of the instant
ToISODate(t) == t \div 24

\* is daylight-saving time in force in zone z at instant t
InDST(z, t) ==
    \/ z.kind = "spring" /\ t >= z.at
    \/ z.kind = "fall"   /\ t <  z.at

\* local time = UTC + offset
TzOffset(z, t) == z.base + (IF InDST(z, t) THEN 1 ELSE 0)

\* date.setDate(date.getDate() + 1): one day later on the local wall clock,
\* converted back to an instant (an ambiguous wall time takes the earlier
\* instant, a skipped one the offset in force before the transition)
SetDatePlusOne(z, t) ==
    LET wall == t + TzOffset(z, t) + 24
        tDst == wall - (z.base + 1)
        tStd == wall - z.base
    IN  IF z.kind # "none" /\ InDST(z, tDst) THEN tDst ELSE tStd

\* time zones of the host: a fixed offset, a zone that springs forward and
\* a zone that falls back at 02:00 local time of day 2
Zones ==
    { [base |-> -3, kind |-> "none",   at |-> 0],
      [base |->  1, kind |-> "spring", at |-> 24 * 2 + 1],
      [base |-> -5, kind |-> "fall",   at |-> 24 * 2 + 6] }

-----------------------------------------------------------------------------
(***************************************************************************)
(* calculateFitnessMetrics                                                 *)
(***************************************************************************)

DEFAULT_CONFIG ==
    [ctlTimeConstant |-> 42, atlTimeConstant |-> 7,
     initialCtl |-> 0, initialAtl |-> 0]

\* Math.exp(-1 / timeConstant) in millionths: the alternating Taylor series
\* of exp(-x), x = 1/timeConstant
RECURSIVE ExpSeries(_, _, _, _)
ExpSeries(tc, k, term, acc) ==
    IF term = 0 \/ k > 12 THEN acc
    ELSE LET next == RoundDiv(term, tc * k)
         IN  ExpSeries(tc, k + 1, next,
                       IF k % 2 = 1 THEN acc - next ELSE acc + next)

decayFactor(timeConstant) == ExpSeries(timeConstant, 1, 1000000, 1000000)

\* [...dailyLoads].sort((a, b) => time(a.date) - time(b.date)): stable
RECURSIVE InsertByDate(_, _)
InsertByDate(s, x) ==
    IF s = <<>> THEN <<x>>
    ELSE IF ParseDate(x.date) < ParseDate(Head(s).date)
         THEN <<x>> \o s
         ELSE <<Head(s)>> \o InsertByDate(Tail(s), x)

RECURSIVE SortByDate(_)
SortByDate(s) ==
    IF s = <<>> THEN <<>>
    ELSE InsertByDate(SortByDate(SubSeq(s, 1, Len(s) - 1)), s[Len(s)])

\* sortedLoads.forEach((l) => loadMap.set(l.date, l.load)): a later entry
\* of the same date overwrites the earlier one
RECURSIVE LoadMapOf(_)
LoadMapOf(s) ==
    IF s = <<>> THEN << >>
    ELSE LET m == LoadMapOf(SubSeq(s, 1, Len(s) - 1))
             l == s[Len(s)]
         IN  [d \in (DOMAIN m) \cup {l.date} |->
                 IF d = l.date THEN l.load ELSE m[d]]

\* loadMap.get(dateStr) ?? 0
LoadOn(m, d) == IF d \in DOMAIN m THEN m[d] ELSE 0

\* v * f for v in thousandths and a factor f in millionths, in millionths
\* (the product is split so that it stays within 32 bits)
MulFactor(v, f) == v * (f \div 1000) + RoundDiv(v * (f % 1000), 1000)

\* EmaStep with the sign of the gain slipped (decay - 1 for 1 - decay)
EmaStepGainSign(x, load, decay) ==
    RoundDiv(MulFactor(x, decay) - MulFactor(load * 1000, 1000000 - decay),
             1000)

\* EmaStep without the decay of the previous value (x + load * gain)
EmaStepNoDecay(x, load, decay) ==
    x + RoundDiv(MulFactor(load * 1000, 1000000 - decay), 1000)

\* x = x * decay + load * gain, gain = 1 - decay; state in thousandths
EmaStep(x, load, decay) ==
    RoundDiv(MulFactor(x, decay) + MulFactor(load * 1000, 1000000 - decay),
             1000)

\* Math.round(v * 10) / 10 of a value in thousandths, in tenths
Round1(v) == RoundDiv(v, 100)

\* MetricsEntry with the operands of tsb swapped (atl - ctl)
MetricsEntryTsbSwapped(dateStr, c, a, load) ==
    [date |-> dateStr,
     ctl  |-> Round1(c),
     atl  |-> Round1(a),
     tsb  |-> Round1(a - c),
     load |-> load]

\* the entry pushed for one day
MetricsEntry(dateStr, c, a, load) ==
    [date |-> dateStr,
     ctl  |-> Round1(c),
     atl  |-> Round1(a),
     tsb  |-> Round1(c - a),
     load |-> load]

StartDate(loads) == ParseDate(SortByDate(loads)[1].date)
EndDate(loads)   == ParseDate(SortByDate(loads)[Len(loads)].date)

\* FitCall sorting the caller's array itself (dailyLoads.sort(...) without
\* the copy of line 72)
FitCallSortsInPlace ==
    /\ fpc = "idle"
    /\ IF Len(dailyLoads) = 0
       THEN /\ fpc' = "done"
            /\ UNCHANGED <<currentDate, ctl, atl>>
       ELSE /\ fpc' = "loop"
            /\ currentDate' = StartDate(dailyLoads)
            /\ ctl' = cfg.initialCtl * 1000
            /\ atl' = cfg.initialAtl * 1000
    /\ dailyLoads' = SortByDate(dailyLoads)
    /\ results' = <<>>
    /\ UNCHANGED <<cfg, tz, fitStats, loadVars, curveVars, winVars, scoreVars,
                   scanVars, estVars, viewVars>>

\* lines 65-99: merge the config, return [] on empty input, else set up
FitCall ==
    /\ fpc = "idle"
    /\ IF Len(dailyLoads) = 0
       THEN /\ fpc' = "done"
            /\ UNCHANGED <<currentDate, ctl, atl>>
       ELSE /\ fpc' = "loop"
            /\ currentDate' = StartDate(dailyLoads)
            /\ ctl' = cfg.initialCtl * 1000
            /\ atl' = cfg.initialAtl * 1000
    /\ results' = <<>>
    /\ UNCHANGED <<dailyLoads, cfg, tz, fitStats, loadVars, curveVars, winVars, scoreVars,
                   scanVars, estVars, viewVars>>

\* lines 100-120: one iteration of while (currentDate <= endDate)
FitLoop ==
    /\ fpc = "loop"
    /\ currentDate <= EndDate(dailyLoads)
    /\ LET dateStr == ToISODate(currentDate)
           load    == LoadOn(LoadMapOf(SortByDate(dailyLoads)), dateStr)
           c       == EmaStep(ctl, load, decayFactor(cfg.ctlTimeConstant))
           a       == EmaStep(atl, load, decayFactor(cfg.atlTimeConstant))
       IN  /\ ctl' = c
           /\ atl' = a
           /\ results' = Append(results, MetricsEntry(dateStr, c, a, load))
    /\ currentDate' = SetDatePlusOne(tz, currentDate)
    /\ UNCHANGED <<dailyLoads, cfg, tz, fpc, fitStats, loadVars, curveVars, winVars, scoreVars,
                   scanVars, estVars, viewVars>>

\* line 122: the loop condition fails, return results
FitReturn ==
    /\ fpc = "loop"
    /\ currentDate > EndDate(dailyLoads)
    /\ fpc' = "done"
    /\ UNCHANGED <<dailyLoads, cfg, tz, currentDate, ctl, atl, results,
                   fitStats, loadVars, curveVars, winVars, scoreVars,
                   scanVars, estVars, viewVars>>

\* getCurrentFitness: last?.ctl ?? 0, in tenths
getCurrentFitness(metrics) ==
    IF Len(metrics) = 0 THEN 0 ELSE metrics[Len(metrics)].ctl

\* getCurrentForm: last?.tsb ?? 0, in tenths
getCurrentForm(metrics) ==
    IF Len(metrics) = 0 THEN 0 ELSE metrics[Len(metrics)].tsb

\* getFitnessTrend with the index taken as it comes, not clamped at 0
getFitnessTrendUnclamped(metrics, days) ==
    IF Len(metrics) < 2 THEN 0
    ELSE LET recent  == metrics[Len(metrics)]
             daysAgo == Len(metrics) - 1 - days
         IN  IF daysAgo < 0 \/ daysAgo > Len(metrics) - 1 THEN 0
             ELSE recent.ctl - metrics[daysAgo + 1].ctl

\* getFitnessTrend, in tenths; metrics[daysAgo] is 0-based in the source.
\* Math.round((recent.ctl - past.ctl) * 10) / 10 of two values that are
\* multiples of 0.1 is their difference.
getFitnessTrend(metrics, days) ==
    IF Len(metrics) < 2 THEN 0
    ELSE LET recent  == metrics[Len(metrics)]
             daysAgo == Max2(0, Len(metrics) - 1 - days)
         IN  IF daysAgo > Len(metrics) - 1 THEN 0
             ELSE recent.ctl - metrics[daysAgo + 1].ctl

\* the values of the days argument tried (the view passes 28)
TrendDays == {0, 1, 2, 3, 28}

NoStats == [days |-> 0, currentFitness |-> 0, currentForm |-> 0,
            fitnessTrend |-> 0]

\* the three accessors applied to the returned series
ReadStats ==
    /\ fpc = "done"
    /\ \E days \in TrendDays :
           fitStats' = [days           |-> days,
                        currentFitness |-> getCurrentFitness(results),
                        currentForm    |-> getCurrentForm(results),
                        fitnessTrend   |-> getFitnessTrend(results, days)]
    /\ fpc' = "read"
    /\ UNCHANGED <<dailyLoads, cfg, tz, currentDate, ctl, atl, results,
                   loadVars, curveVars, winVars, scoreVars,
                   scanVars, estVars, viewVars>>

-----------------------------------------------------------------------------
(***************************************************************************)
(* activitiesToDailyLoads and its estimators                               *)
(***************************************************************************)

\* JavaScript truthiness of a nullable number: null and 0 are falsy
Truthy(v) == v # NULL /\ v # 0

\* a || b on nullable numbers
OrElse(a, b) == IF Truthy(a) THEN a ELSE b

\* Math.exp(x), x >= 0 in ten-thousandths, result in ten-thousandths
RECURSIVE ExpPos(_, _, _, _)
ExpPos(x, k, term, acc) ==
    IF term = 0 \/ k > 24 THEN acc
    ELSE LET next == RoundDiv(term * x, 10000 * k)
         IN  ExpPos(x, k + 1, next, acc + next)

\* calculateTRIMP straight from the formula: no test of avgHeartRate against
\* restingHeartRate and no lower clamp of the heart rate reserve
calculateTRIMPNoFloor(movingTime, avgHeartRate, restingHeartRate, maxHeartRate, gender) ==
    IF maxHeartRate <= restingHeartRate
    THEN 0
    ELSE LET hrr   == RoundDiv((avgHeartRate - restingHeartRate) * 10000,
                               maxHeartRate - restingHeartRate)
             clampedHrr == Min2(10000, hrr)
             y     == IF gender = "male" THEN 192 ELSE 167
             e     == ExpPos(RoundDiv(y * clampedHrr, 100), 1, 10000, 10000)
             he    == RoundDiv(clampedHrr * e, 10000)
             k     == RoundDiv(he * 64, 100)
         IN  RoundDiv(k * movingTime, 60 * 10000)

\* calculateTRIMP
calculateTRIMP(movingTime, avgHeartRate, restingHeartRate, maxHeartRate, gender) ==
    IF maxHeartRate <= restingHeartRate \/ avgHeartRate < restingHeartRate
    THEN 0
    ELSE LET hrr   == RoundDiv((avgHeartRate - restingHeartRate) * 10000,
                               maxHeartRate - restingHeartRate)
             clampedHrr == Max2(0, Min2(10000, hrr))
             y     == IF gender = "male" THEN 192 ELSE 167
             e     == ExpPos(RoundDiv(y * clampedHrr, 100), 1, 10000, 10000)
             he    == RoundDiv(clampedHrr * e, 10000)
             k     == RoundDiv(he * 64, 100)
         IN  RoundDiv(k * movingTime, 60 * 10000)

\* calculateTSS without the test of durationSeconds
calculateTSSAnyDuration(durationSeconds, normalizedPower, ftp) ==
    IF ftp <= 0
    THEN 0
    ELSE RoundDiv(durationSeconds * normalizedPower * normalizedPower,
                  36 * ftp * ftp)

\* calculateTSS: round(dur * np * (np / ftp) / (ftp * 3600) * 100)
calculateTSS(durationSeconds, normalizedPower, ftp) ==
    IF ftp <= 0 \/ durationSeconds <= 0
    THEN 0
    ELSE RoundDiv(durationSeconds * normalizedPower * normalizedPower,
                  36 * ftp * ftp)

\* estimateLoadFromSufferScore (durationMinutes = movingTime / 60)
estimateLoadFromSufferScore(sufferScore, movingTime) ==
    IF Truthy(sufferScore) /\ sufferScore > 0
    THEN sufferScore
    ELSE RoundDiv(movingTime, 120)

\* the options object with its defaults
DEFAULT_OPTIONS ==
    [restingHeartRate |-> 60, maxHeartRate |-> 190, ftp |-> 200,
     gender |-> "male"]

\* ActivityLoad with the heart-rate tier consulted before the power tier
ActivityLoadHeartRateFirst(activity, options) ==
    LET movingTime == OrElse(activity.moving_time, 0)
    IN  IF Truthy(activity.average_heartrate)
        THEN calculateTRIMP(movingTime, activity.average_heartrate,
                 options.restingHeartRate, options.maxHeartRate,
                 options.gender)
        ELSE IF Truthy(activity.weighted_average_watts)
                \/ Truthy(activity.average_watts)
        THEN calculateTSS(movingTime,
                 OrElse(activity.weighted_average_watts,
                        OrElse(activity.average_watts, 0)),
                 options.ftp)
        ELSE estimateLoadFromSufferScore(activity.suffer_score, movingTime)

\* lines 236-255: what one activity adds to its day's totalLoad
ActivityLoad(activity, options) ==
    LET movingTime == OrElse(activity.moving_time, 0)
    IN  IF Truthy(activity.weighted_average_watts)
           \/ Truthy(activity.average_watts)
        THEN calculateTSS(movingTime,
                 OrElse(activity.weighted_average_watts,
                        OrElse(activity.average_watts, 0)),
                 options.ftp)
        ELSE IF Truthy(activity.average_heartrate)
        THEN calculateTRIMP(movingTime, activity.average_heartrate,
                 options.restingHeartRate, options.maxHeartRate,
                 options.gender)
        ELSE estimateLoadFromSufferScore(activity.suffer_score, movingTime)

\* activity.start_date.split('T')[0]: the date part of the timestamp string
DatePart(start_date) == start_date.day

\* lines 218-227: one forEach step appending the activity to its day's list,
\* a new day going to the end of the Map's insertion order
GroupOne(m, activity) ==
    LET date == DatePart(activity.start_date)
    IN  IF \E i \in 1..Len(m) : m[i].date = date
        THEN [i \in 1..Len(m) |->
                 IF m[i].date = date
                 THEN [m[i] EXCEPT !.acts = Append(@, activity)]
                 ELSE m[i]]
        ELSE Append(m, [date |-> date, acts |-> <<activity>>])

RECURSIVE GroupByDate(_)
GroupByDate(acts) ==
    IF acts = <<>> THEN <<>>
    ELSE GroupOne(GroupByDate(SubSeq(acts, 1, Len(acts) - 1)), acts[Len(acts)])

\* lines 233-258: the entry pushed for one day of the Map
DayEntry(day, options) ==
    [date |-> day.date,
     load |-> SeqSum([i \in 1..Len(day.acts) |->
                         ActivityLoad(day.acts[i], options)])]

\* SortDailyLoads with the sort left out
SortDailyLoadsOmitted(s) == s

\* line 261: dailyLoads.sort(by date)
SortDailyLoads(s) == SortByDate(s)

\* lines 213-227
LoadCall ==
    /\ lpc = "idle"
    /\ dailyActivities' = GroupByDate(loadActs)
    /\ loadOut' = <<>>
    /\ lpc' = "score"
    /\ UNCHANGED <<loadActs, fitVars, curveVars, winVars, scoreVars,
                   scanVars, estVars, viewVars>>

\* lines 232-259: one step of dailyActivities.forEach
LoadScoreDay ==
    /\ lpc = "score"
    /\ Len(loadOut) < Len(dailyActivities)
    /\ loadOut' = Append(loadOut,
                     DayEntry(dailyActivities[Len(loadOut) + 1], DEFAULT_OPTIONS))
    /\ UNCHANGED <<loadActs, lpc, dailyActivities, fitVars, curveVars, winVars, scoreVars,
                   scanVars, estVars, viewVars>>

\* line 261
LoadReturn ==
    /\ lpc = "score"
    /\ Len(loadOut) = Len(dailyActivities)
    /\ loadOut' = SortDailyLoads(loadOut)
    /\ lpc' = "done"
    /\ UNCHANGED <<loadActs, dailyActivities, fitVars, curveVars, winVars, scoreVars,
                   scanVars, estVars, viewVars>>

-----------------------------------------------------------------------------
(***************************************************************************)
(* Power curve: calculateBestPowerForDuration, estimateBestPowerForDuration *)
(***************************************************************************)

\* POWER_CURVE_INTERVALS[i].seconds
POWER_CURVE_INTERVALS ==
    <<5, 15, 30, 60, 120, 180, 300, 480, 600, 900, 1200, 1800, 2700, 3600, 7200>>

\* AdvanceStart searching the window start anew from the first sample in
\* every iteration instead of carrying the pointer on
AdvanceStartFromFirst(timeData, windowStart, windowEnd, targetStartTime) ==
    LET S == { i \in 1..windowEnd :
                 i = windowEnd \/ timeData[i] >= targetStartTime }
    IN  CHOOSE i \in S : \A j \in S : i <= j

\* lines 67-71: move windowStart forward while it is before the target time
RECURSIVE AdvanceStart(_, _, _, _)
AdvanceStart(timeData, windowStart, windowEnd, targetStartTime) ==
    IF windowStart < windowEnd /\ timeData[windowStart] < targetStartTime
    THEN AdvanceStart(timeData, windowStart + 1, windowEnd, targetStartTime)
    ELSE windowStart

\* line 88: power !== null && power !== undefined && power >= 0
ValidSample(powerData, i) ==
    i \in DOMAIN powerData /\ powerData[i] # NULL /\ powerData[i] >= 0

\* WindowSum with an invalid sample counted as a sample of 0 watts
RECURSIVE WindowSumCountsInvalid(_, _, _)
WindowSumCountsInvalid(powerData, i, windowEnd) ==
    IF i > windowEnd THEN <<0, 0>>
    ELSE LET rest == WindowSumCountsInvalid(powerData, i + 1, windowEnd)
         IN  IF ValidSample(powerData, i)
             THEN <<rest[1] + powerData[i], rest[2] + 1>>
             ELSE <<rest[1], rest[2] + 1>>

\* lines 83-92: <<powerSum, validSamples>> of the window
RECURSIVE WindowSum(_, _, _)
WindowSum(powerData, i, windowEnd) ==
    IF i > windowEnd THEN <<0, 0>>
    ELSE LET rest == WindowSum(powerData, i + 1, windowEnd)
         IN  IF ValidSample(powerData, i)
             THEN <<rest[1] + powerData[i], rest[2] + 1>>
             ELSE rest

\* lines 60-101: the scan; best is bestAvgPower as the fraction <<sum, n>>
RECURSIVE WindowScan(_, _, _, _, _, _)
WindowScan(timeData, powerData, target, windowEnd, windowStart, best) ==
    IF windowEnd > Len(timeData) THEN best
    ELSE LET ws  == AdvanceStart(timeData, windowStart, windowEnd,
                                 timeData[windowEnd] - target)
             windowDuration == timeData[windowEnd] - timeData[ws]
             w   == WindowSum(powerData, ws, windowEnd)
             better ==
                 /\ 10 * windowDuration >= 9 * target
                 /\ w[2] > 0
                 /\ w[1] * best[2] > best[1] * w[2]
         IN  WindowScan(timeData, powerData, target, windowEnd + 1, ws,
                        IF better THEN w ELSE best)

\* calculateBestPowerForDuration rejecting a stream exactly as long as the
\* requested duration (<= for < in line 54)
calculateBestPowerForDurationStrict(timeData, powerData, targetDurationSeconds) ==
    IF Len(timeData) < 2 \/ Len(powerData) < 2 THEN NULL
    ELSE IF timeData[Len(timeData)] - timeData[1] <= targetDurationSeconds
    THEN NULL
    ELSE LET best == WindowScan(timeData, powerData, targetDurationSeconds,
                                1, 1, <<0, 1>>)
         IN  IF best[1] > 0 THEN RoundDiv(best[1], best[2]) ELSE NULL

\* calculateBestPowerForDuration
calculateBestPowerForDuration(timeData, powerData, targetDurationSeconds) ==
    IF Len(timeData) < 2 \/ Len(powerData) < 2 THEN NULL
    ELSE IF timeData[Len(timeData)] - timeData[1] < targetDurationSeconds
    THEN NULL
    ELSE LET best == WindowScan(timeData, powerData, targetDurationSeconds,
                                1, 1, <<0, 1>>)
         IN  IF best[1] > 0 THEN RoundDiv(best[1], best[2]) ELSE NULL

\* f ^ 10 for f in thousandths, result in millionths
RECURSIVE PowFixed(_, _, _)
PowFixed(f, n, acc) ==
    IF n = 0 THEN acc ELSE PowFixed(f, n - 1, (acc * f) \div 1000)

\* Math.pow(a / b, 0.1) in thousandths (0 < a <= b): the largest f whose
\* tenth power does not exceed a / b, found by bisection on lo..hi
RECURSIVE TenthRoot(_, _, _)
TenthRoot(lo, hi, target) ==
    IF lo >= hi THEN lo
    ELSE LET mid == (lo + hi + 1) \div 2
         IN  IF PowFixed(mid, 10, 1000000) <= target
             THEN TenthRoot(mid, hi, target)
             ELSE TenthRoot(lo, mid - 1, target)

PowTenth(a, b) == TenthRoot(0, 1000, (a * 1000000) \div b)

\* estimateBestPowerForDuration without the skip of an activity shorter than
\* the requested duration
estimateBestPowerForDurationNoSkip(activity, durationSeconds) ==
    LET activityDuration == OrElse(activity.moving_time, 0)
        avgPower == OrElse(activity.weighted_average_watts, activity.average_watts)
        maxPower == activity.max_watts
    IN  IF ~Truthy(avgPower) THEN NULL
        ELSE IF durationSeconds <= 60 /\ Truthy(maxPower)
        THEN LET factor == PowTenth(durationSeconds, activityDuration)
             IN  RoundDiv(maxPower * (1000 - factor) + avgPower * factor, 1000)
        ELSE IF 2 * durationSeconds < activityDuration
        THEN IF 100 * (11 * activityDuration - durationSeconds)
                    <= 115 * 10 * activityDuration
             THEN RoundDiv(avgPower * (11 * activityDuration - durationSeconds),
                           10 * activityDuration)
             ELSE RoundDiv(avgPower * 115, 100)
        ELSE avgPower

\* estimateBestPowerForDuration scaling every duration below the activity's
\* (the 0.5 of line 132 dropped)
estimateBestPowerForDurationScalesAll(activity, durationSeconds) ==
    LET activityDuration == OrElse(activity.moving_time, 0)
        avgPower == OrElse(activity.weighted_average_watts, activity.average_watts)
        maxPower == activity.max_watts
    IN  IF ~Truthy(avgPower) THEN NULL
        ELSE IF activityDuration < durationSeconds THEN NULL
        ELSE IF durationSeconds <= 60 /\ Truthy(maxPower)
        THEN LET factor == PowTenth(durationSeconds, activityDuration)
             IN  RoundDiv(maxPower * (1000 - factor) + avgPower * factor, 1000)
        ELSE IF durationSeconds < activityDuration
        THEN RoundDiv(avgPower * (11 * activityDuration - durationSeconds),
                      10 * activityDuration)
        ELSE avgPower

\* estimateBestPowerForDuration
estimateBestPowerForDuration(activity, durationSeconds) ==
    LET activityDuration == OrElse(activity.moving_time, 0)
        avgPower == OrElse(activity.weighted_average_watts, activity.average_watts)
        maxPower == activity.max_watts
    IN  IF ~Truthy(avgPower) THEN NULL
        ELSE IF activityDuration < durationSeconds THEN NULL
        ELSE IF durationSeconds <= 60 /\ Truthy(maxPower)
        THEN LET factor == PowTenth(durationSeconds, activityDuration)
             IN  RoundDiv(maxPower * (1000 - factor) + avgPower * factor, 1000)
        ELSE IF 2 * durationSeconds < activityDuration
        THEN \* factor = 1 + 0.1 * (1 - T / D) = (11 D - T) / (10 D)
             IF 100 * (11 * activityDuration - durationSeconds)
                    <= 115 * 10 * activityDuration
             THEN RoundDiv(avgPower * (11 * activityDuration - durationSeconds),
                           10 * activityDuration)
             ELSE RoundDiv(avgPower * 115, 100)
        ELSE avgPower

CYCLING_SPORT_TYPES ==
    {"Ride", "VirtualRide", "GravelRide", "MountainBikeRide", "EBikeRide"}

isCyclingActivity(activity) ==
    \/ activity.type = "Ride"
    \/ activity.sport_type # "null" /\ activity.sport_type \in CYCLING_SPORT_TYPES

\* hasPowerData accepting an activity without a power reading
hasPowerDataAlways(activity) == TRUE

hasPowerData(activity) ==
    Truthy(activity.average_watts) \/ Truthy(activity.weighted_average_watts)

\* CyclingActivities keeping every activity with power, whatever its sport
CyclingActivitiesAnySport(acts) ==
    SelectSeq(acts, LAMBDA a : hasPowerData(a))

\* activities.filter((a) => isCyclingActivity(a) && hasPowerData(a))
CyclingActivities(acts) ==
    SelectSeq(acts, LAMBDA a : isCyclingActivity(a) /\ hasPowerData(a))

-----------------------------------------------------------------------------
(***************************************************************************)
(* calculatePowerCurve / calculatePowerCurveSync                           *)
(* A point is [duration, power, activityId, fromStream]; its label, name   *)
(* and date are copied from the interval and from the named activity.      *)
(***************************************************************************)

\* lines 204-206: bestPower = 0, bestActivity = null, fromStream = false
NoBest == [bestPower |-> 0, bestActivity |-> NULL, fromStream |-> FALSE]

\* activitiesById.get(id) || null, the Map being built from cyclingActivities
ActivityById(cyclingActivities, id) ==
    IF \E i \in 1..Len(cyclingActivities) : cyclingActivities[i].id = id
    THEN id ELSE NULL

\* streamsByActivityId.has(id)
HasStream(powerStreams, id) ==
    \E i \in 1..Len(powerStreams) : powerStreams[i].activityId = id

\* lines 209-221: for (const stream of powerStreams)
RECURSIVE StreamLoop(_, _, _, _, _)
StreamLoop(powerStreams, cyclingActivities, seconds, i, best) ==
    IF i > Len(powerStreams) THEN best
    ELSE LET stream == powerStreams[i]
             power  == calculateBestPowerForDuration(
                           stream.timeData, stream.powerData, seconds)
         IN  StreamLoop(powerStreams, cyclingActivities, seconds, i + 1,
                 IF Truthy(power) /\ power > best.bestPower
                 THEN [bestPower    |-> power,
                       bestActivity |-> ActivityById(cyclingActivities,
                                                     stream.activityId),
                       fromStream   |-> TRUE]
                 ELSE best)

\* EstimateLoop with >= for >: an estimate that ties takes the point over
RECURSIVE EstimateLoopTieWins(_, _, _, _, _)
EstimateLoopTieWins(powerStreams, cyclingActivities, seconds, i, best) ==
    IF i > Len(cyclingActivities) THEN best
    ELSE LET activity == cyclingActivities[i]
             power    == estimateBestPowerForDuration(activity, seconds)
         IN  EstimateLoopTieWins(powerStreams, cyclingActivities, seconds, i + 1,
                 IF HasStream(powerStreams, activity.id) THEN best
                 ELSE IF Truthy(power) /\ power >= best.bestPower
                 THEN [bestPower    |-> power,
                       bestActivity |-> activity.id,
                       fromStream   |-> FALSE]
                 ELSE best)

\* EstimateLoop without the skip of activities that have a stream
RECURSIVE EstimateLoopNoSkip(_, _, _, _, _)
EstimateLoopNoSkip(powerStreams, cyclingActivities, seconds, i, best) ==
    IF i > Len(cyclingActivities) THEN best
    ELSE LET activity == cyclingActivities[i]
             power    == estimateBestPowerForDuration(activity, seconds)
         IN  EstimateLoopNoSkip(powerStreams, cyclingActivities, seconds, i + 1,
                 IF Truthy(power) /\ power > best.bestPower
                 THEN [bestPower    |-> power,
                       bestActivity |-> activity.id,
                       fromStream   |-> FALSE]
                 ELSE best)

\* lines 224-234: for (const activity of cyclingActivities), skipping those
\* that have a stream
RECURSIVE EstimateLoop(_, _, _, _, _)
EstimateLoop(powerStreams, cyclingActivities, seconds, i, best) ==
    IF i > Len(cyclingActivities) THEN best
    ELSE LET activity == cyclingActivities[i]
             power    == estimateBestPowerForDuration(activity, seconds)
         IN  EstimateLoop(powerStreams, cyclingActivities, seconds, i + 1,
                 IF HasStream(powerStreams, activity.id) THEN best
                 ELSE IF Truthy(power) /\ power > best.bestPower
                 THEN [bestPower    |-> power,
                       bestActivity |-> activity.id,
                       fromStream   |-> FALSE]
                 ELSE best)

\* SyncLoop with >= for >: among equal estimates the last activity is named
RECURSIVE SyncLoopTieWins(_, _, _, _)
SyncLoopTieWins(cyclingActivities, seconds, i, best) ==
    IF i > Len(cyclingActivities) THEN best
    ELSE LET activity == cyclingActivities[i]
             power    == estimateBestPowerForDuration(activity, seconds)
         IN  SyncLoopTieWins(cyclingActivities, seconds, i + 1,
                 IF Truthy(power) /\ power >= best.bestPower
                 THEN [bestPower    |-> power,
                       bestActivity |-> activity.id,
                       fromStream   |-> FALSE]
                 ELSE best)

\* lines 271-277: the loop of calculatePowerCurveSync
RECURSIVE SyncLoop(_, _, _, _)
SyncLoop(cyclingActivities, seconds, i, best) ==
    IF i > Len(cyclingActivities) THEN best
    ELSE LET activity == cyclingActivities[i]
             power    == estimateBestPowerForDuration(activity, seconds)
         IN  SyncLoop(cyclingActivities, seconds, i + 1,
                 IF Truthy(power) /\ power > best.bestPower
                 THEN [bestPower    |-> power,
                       bestActivity |-> activity.id,
                       fromStream   |-> FALSE]
                 ELSE best)

\* PushPoint without its guard: a point is pushed for every interval
PushPointUnguarded(points, seconds, best) ==
    Append(points, [duration   |-> seconds,
                    power      |-> best.bestPower,
                    activityId |-> best.bestActivity,
                    fromStream |-> best.fromStream])

\* lines 236-246 / 279-289: if (bestActivity && bestPower > 0) points.push
PushPoint(points, seconds, best) ==
    IF best.bestActivity # NULL /\ best.bestPower > 0
    THEN Append(points, [duration   |-> seconds,
                         power      |-> best.bestPower,
                         activityId |-> best.bestActivity,
                         fromStream |-> best.fromStream])
    ELSE points

\* lines 203-247: for (const interval of POWER_CURVE_INTERVALS)
RECURSIVE AsyncPoints(_, _, _, _)
AsyncPoints(powerStreams, cyclingActivities, k, points) ==
    IF k > Len(POWER_CURVE_INTERVALS) THEN points
    ELSE LET seconds == POWER_CURVE_INTERVALS[k]
             viaStream == StreamLoop(powerStreams, cyclingActivities,
                                     seconds, 1, NoBest)
             best == EstimateLoop(powerStreams, cyclingActivities,
                                  seconds, 1, viaStream)
         IN  AsyncPoints(powerStreams, cyclingActivities, k + 1,
                         PushPoint(points, seconds, best))

\* lines 267-290
RECURSIVE SyncPoints(_, _, _)
SyncPoints(cyclingActivities, k, points) ==
    IF k > Len(POWER_CURVE_INTERVALS) THEN points
    ELSE LET seconds == POWER_CURVE_INTERVALS[k]
             best == SyncLoop(cyclingActivities, seconds, 1, NoBest)
         IN  SyncPoints(cyclingActivities, k + 1,
                        PushPoint(points, seconds, best))

\* calculatePowerCurveSync(activities, periodLabel)
calculatePowerCurveSync(acts, periodLabel) ==
    [points |-> SyncPoints(CyclingActivities(acts), 1, <<>>),
     period |-> periodLabel]

\* lines 181-187: powerStreams stays [] when the fetch throws
CaughtStreams(outcome) ==
    IF outcome.ok THEN outcome.streams ELSE <<>>

\* PowerCurveAfterFetch giving up with an empty curve when the fetch failed
PowerCurveEmptyOnFailure(acts, periodLabel, outcome) ==
    IF outcome.ok
    THEN [points |-> AsyncPoints(outcome.streams, CyclingActivities(acts),
                                 1, <<>>),
          period |-> periodLabel]
    ELSE [points |-> <<>>, period |-> periodLabel]

\* lines 189-249: calculatePowerCurve after the await
PowerCurveAfterFetch(acts, periodLabel, outcome) ==
    [points |-> AsyncPoints(CaughtStreams(outcome), CyclingActivities(acts),
                            1, <<>>),
     period |-> periodLabel]

\* lines 175-177: no candidate, no fetch
EmptyCurve(periodLabel) == [points |-> <<>>, period |-> periodLabel]

\* ActivityIds asking for the first candidate only (a per-activity request)
ActivityIdsFirstOnly(acts) ==
    [i \in 1..1 |-> CyclingActivities(acts)[i].id]

\* line 180: activityIds = cyclingActivities.map((a) => a.id)
ActivityIds(acts) ==
    [i \in 1..Len(CyclingActivities(acts)) |-> CyclingActivities(acts)[i].id]

\* curve.points.find((p) => p.duration === seconds) is not undefined
HasPoint(points, seconds) ==
    \E i \in 1..Len(points) : points[i].duration = seconds

\* curve.points.find((p) => p.duration === seconds): the first such point
FindPoint(points, seconds) ==
    points[CHOOSE i \in 1..Len(points) :
               /\ points[i].duration = seconds
               /\ \A j \in 1..(i - 1) : points[j].duration # seconds]

\* estimateFTP with the one-hour point consulted first
estimateFTPHourFirst(curve) ==
    IF HasPoint(curve.points, 3600)
    THEN FindPoint(curve.points, 3600).power
    ELSE IF HasPoint(curve.points, 1200)
    THEN RoundDiv(19 * FindPoint(curve.points, 1200).power, 20)
    ELSE NULL

\* estimateFTP: Math.round(power * 0.95) of the 20-minute point, else the
\* one-hour power, else null
estimateFTP(curve) ==
    IF HasPoint(curve.points, 1200)
    THEN RoundDiv(19 * FindPoint(curve.points, 1200).power, 20)
    ELSE IF HasPoint(curve.points, 3600)
    THEN FindPoint(curve.points, 3600).power
    ELSE NULL

-----------------------------------------------------------------------------
(***************************************************************************)
(* computePrimaryCurve (the view) and the stream fetch                     *)
(***************************************************************************)

\* line 34: ref<PowerCurve>({ points: [], period: '' })
NoCurve == [points |-> <<>>, period |-> ""]

\* lines 66-68 with selectedYear = null and primaryPeriod = '1y'
PrimaryLabel == "1 Year"

NoOutcome == [ok |-> TRUE, streams |-> <<>>]

\* what the stream store can hold for one activity: no sample, one sample,
\* an all-zero ride, a sparse hour, constant power, invalid samples
StreamPool ==
    { [timeData |-> <<>>,                  powerData |-> <<>>],
      [timeData |-> <<0>>,                 powerData |-> <<300>>],
      [timeData |-> <<0, 1800, 3600>>,     powerData |-> <<0, 0, 0>>],
      [timeData |-> <<0, 3600>>,           powerData |-> <<200, 200>>],
      [timeData |-> <<0, 60, 120>>,        powerData |-> <<250, 250, 250>>],
      [timeData |-> <<0, 5, 15, 30>>,      powerData |-> <<NULL, 400, 0, 290>>] }

\* the positions of S in ascending order
RECURSIVE Ascending(_)
Ascending(S) ==
    IF S = {} THEN <<>>
    ELSE LET m == CHOOSE x \in S : \A y \in S : x <= y
         IN  <<m>> \o Ascending(S \ {m})

Reversed(s) == [i \in DOMAIN s |-> s[Len(s) + 1 - i]]

\* the streams g holds for the requested positions, in the order of the request
StreamsFor(ids, g) ==
    LET at == Ascending(DOMAIN g)
    IN  [k \in DOMAIN at |->
            [activityId |-> ids[at[k]],
             timeData   |-> g[at[k]].timeData,
             powerData  |-> g[at[k]].powerData]]

\* getPowerStreamsForActivities(activityIds) resolves to streams of some of
\* the requested activities, one per activity, in the order of the request
\* or in the opposite order
Responses(ids) ==
    UNION { { StreamsFor(ids, g), Reversed(StreamsFor(ids, g)) } :
              g \in UNION { [S -> StreamPool] : S \in SUBSET DOMAIN ids } }

\* lines 59-75 and, inside calculatePowerCurve, lines 171-184 up to the await
ComputePrimaryCurve ==
    /\ cpc = "idle"
    /\ IF Len(activities) = 0
       THEN /\ primaryCurve' = NoCurve
            /\ cpc' = "done"
            /\ UNCHANGED <<syncCurve, asyncCurve, fetchLog>>
       ELSE /\ syncCurve' = calculatePowerCurveSync(activities, PrimaryLabel)
            /\ IF Len(CyclingActivities(activities)) = 0
               THEN /\ asyncCurve' = EmptyCurve(PrimaryLabel)
                    /\ primaryCurve' = asyncCurve'
                    /\ cpc' = "done"
                    /\ UNCHANGED fetchLog
               ELSE /\ primaryCurve' = syncCurve'
                    /\ fetchLog' = Append(fetchLog, ActivityIds(activities))
                    /\ cpc' = "awaiting"
                    /\ UNCHANGED asyncCurve
    /\ UNCHANGED <<activities, fetchOutcome, ftpOut, fitVars, loadVars, winVars, scoreVars,
                   scanVars, estVars, viewVars>>

\* the await resumes with the streams: lines 184, 189-249, then line 77-79
FetchResolve ==
    /\ cpc = "awaiting"
    /\ \E resp \in Responses(fetchLog[Len(fetchLog)]) :
           fetchOutcome' = [ok |-> TRUE, streams |-> resp]
    /\ asyncCurve' = PowerCurveAfterFetch(activities, PrimaryLabel, fetchOutcome')
    /\ primaryCurve' = asyncCurve'
    /\ cpc' = "done"
    /\ UNCHANGED <<activities, syncCurve, fetchLog, ftpOut, fitVars, loadVars, winVars, scoreVars,
                   scanVars, estVars, viewVars>>

\* the await throws: lines 185-187, 189-249, then line 77-79
FetchReject ==
    /\ cpc = "awaiting"
    /\ fetchOutcome' = [ok |-> FALSE, streams |-> <<>>]
    /\ asyncCurve' = PowerCurveAfterFetch(activities, PrimaryLabel, fetchOutcome')
    /\ primaryCurve' = asyncCurve'
    /\ cpc' = "done"
    /\ UNCHANGED <<activities, syncCurve, fetchLog, ftpOut, fitVars, loadVars, winVars, scoreVars,
                   scanVars, estVars, viewVars>>

\* estimateFTP applied to the curve on display
EstimateFTP ==
    /\ cpc = "done"
    /\ ftpOut' = estimateFTP(primaryCurve)
    /\ cpc' = "shown"
    /\ UNCHANGED <<activities, primaryCurve, syncCurve, asyncCurve, fetchLog,
                   fetchOutcome, fitVars, loadVars, winVars, scoreVars,
                   scanVars, estVars, viewVars>>

-----------------------------------------------------------------------------
(***************************************************************************)
(* Direct calls of calculateBestPowerForDuration, calculateTSS,            *)
(* calculateTRIMP and of the scoring of one activity                       *)
(***************************************************************************)

\* a call calculateBestPowerForDuration(timeData, powerData, target)
BestPowerCall ==
    /\ wpc = "idle"
    /\ bestOut' = calculateBestPowerForDuration(argTime, argPower, argTarget)
    /\ wpc' = "done"
    /\ UNCHANGED <<argTime, argPower, argTarget, fitVars, loadVars, curveVars,
                   scoreVars,
                   scanVars, estVars, viewVars>>

\* argument values of the direct calls
CallDurations == {-60, 0, 1800, 3600}
CallPowers == {0, 150, 250}
CallHeartRates == {0, 50, 60, 150, 200}

NoScore == [fn |-> "none", args |-> <<>>, value |-> 0]

\* lines 235-256 for one activity: the load it adds to its day
ScoreActivity ==
    /\ spc = "idle"
    /\ scoreOut' = [fn    |-> "activity",
                    args  |-> <<>>,
                    value |-> ActivityLoad(scoreIn.activity, scoreIn.options)]
    /\ spc' = "done"
    /\ UNCHANGED <<scoreIn, fitVars, loadVars, curveVars, winVars,
                   scanVars, estVars, viewVars>>

\* calculateTSS(durationSeconds, normalizedPower, ftp)
CallTSS ==
    /\ spc = "idle"
    /\ \E d \in CallDurations, np \in CallPowers :
           scoreOut' = [fn    |-> "calculateTSS",
                        args  |-> <<d, np, scoreIn.options.ftp>>,
                        value |-> calculateTSS(d, np, scoreIn.options.ftp)]
    /\ spc' = "done"
    /\ UNCHANGED <<scoreIn, fitVars, loadVars, curveVars, winVars,
                   scanVars, estVars, viewVars>>

\* calculateTRIMP(durationMinutes, avgHeartRate, restingHeartRate,
\* maxHeartRate, gender), the duration being given in seconds
CallTRIMP ==
    /\ spc = "idle"
    /\ \E d \in CallDurations \ {-60}, hr \in CallHeartRates :
           LET o == scoreIn.options
           IN  scoreOut' =
                   [fn    |-> "calculateTRIMP",
                    args  |-> <<d, hr, o.restingHeartRate, o.maxHeartRate>>,
                    value |-> calculateTRIMP(d, hr, o.restingHeartRate,
                                             o.maxHeartRate, o.gender)]
    /\ spc' = "done"
    /\ UNCHANGED <<scoreIn, fitVars, loadVars, curveVars, winVars,
                   scanVars, estVars, viewVars>>

-----------------------------------------------------------------------------
(***************************************************************************)
(* Inputs and specifications                                               *)
(***************************************************************************)

MaxLoads == 2
MaxDay == 3
MaxLoadActs == 2
MaxLoadDay == 2
MaxActs == 2

LoadValues == {0, 40, 100}

Configs ==
    { DEFAULT_CONFIG,
      [ctlTimeConstant |-> 7, atlTimeConstant |-> 2,
       initialCtl |-> 50, initialAtl |-> 80] }

DailyLoadInputs ==
    SeqsUpTo([date : 0..MaxDay, load : LoadValues], MaxLoads)

\* activities as the store hands them over, without their id
ActivityPool ==
    { [type |-> "Ride", sport_type |-> "null", moving_time |-> 3600,
       average_watts |-> 200, weighted_average_watts |-> NULL,
       max_watts |-> NULL],
      [type |-> "Workout", sport_type |-> "GravelRide", moving_time |-> 7200,
       average_watts |-> 150, weighted_average_watts |-> 190,
       max_watts |-> 500],
      [type |-> "VirtualRide", sport_type |-> "VirtualRide", moving_time |-> 60,
       average_watts |-> 250, weighted_average_watts |-> 0,
       max_watts |-> NULL],
      [type |-> "Run", sport_type |-> "Run", moving_time |-> 3600,
       average_watts |-> 300, weighted_average_watts |-> NULL,
       max_watts |-> NULL],
      [type |-> "Ride", sport_type |-> "Ride", moving_time |-> 3600,
       average_watts |-> 0, weighted_average_watts |-> NULL,
       max_watts |-> NULL] }

WithId(a, i) ==
    [id |-> i, type |-> a.type, sport_type |-> a.sport_type,
     moving_time |-> a.moving_time, average_watts |-> a.average_watts,
     weighted_average_watts |-> a.weighted_average_watts,
     max_watts |-> a.max_watts]

ActivityInputs ==
    { [i \in DOMAIN s |-> WithId(s[i], i)] : s \in SeqsUpTo(ActivityPool, MaxActs) }

\* the sensor fields of the activities handed to activitiesToDailyLoads
LoadProfiles ==
    { [hour |-> 9, utc_offset |-> 1, moving_time |-> NULL,
       average_heartrate |-> NULL,
       suffer_score |-> NULL, average_watts |-> NULL,
       weighted_average_watts |-> NULL],
      [hour |-> 9, utc_offset |-> 1, moving_time |-> 3600,
       average_heartrate |-> NULL,
       suffer_score |-> 0, average_watts |-> NULL,
       weighted_average_watts |-> NULL],
      [hour |-> 23, utc_offset |-> 2, moving_time |-> 3600,
       average_heartrate |-> NULL,
       suffer_score |-> 45, average_watts |-> NULL,
       weighted_average_watts |-> NULL],
      [hour |-> 9, utc_offset |-> 1, moving_time |-> 1800,
       average_heartrate |-> 150,
       suffer_score |-> 45, average_watts |-> NULL,
       weighted_average_watts |-> NULL],
      [hour |-> 23, utc_offset |-> 2, moving_time |-> 1800,
       average_heartrate |-> 50,
       suffer_score |-> 45, average_watts |-> NULL,
       weighted_average_watts |-> NULL],
      [hour |-> 9, utc_offset |-> 1, moving_time |-> 1800,
       average_heartrate |-> 0,
       suffer_score |-> 45, average_watts |-> NULL,
       weighted_average_watts |-> NULL],
      [hour |-> 9, utc_offset |-> 1, moving_time |-> 3600,
       average_heartrate |-> 150,
       suffer_score |-> 45, average_watts |-> 200,
       weighted_average_watts |-> NULL],
      [hour |-> 1, utc_offset |-> -5, moving_time |-> 3600,
       average_heartrate |-> 150,
       suffer_score |-> NULL, average_watts |-> 200,
       weighted_average_watts |-> 220],
      [hour |-> 9, utc_offset |-> 1, moving_time |-> 3600,
       average_heartrate |-> 150,
       suffer_score |-> NULL, average_watts |-> 200,
       weighted_average_watts |-> 0],
      [hour |-> 9, utc_offset |-> 1, moving_time |-> 3600,
       average_heartrate |-> 150,
       suffer_score |-> 45, average_watts |-> 0,
       weighted_average_watts |-> 0],
      [hour |-> 9, utc_offset |-> 1, moving_time |-> NULL,
       average_heartrate |-> 150,
       suffer_score |-> 45, average_watts |-> 200,
       weighted_average_watts |-> NULL] }

\* the wall-clock time, offset hours east of UTC, of a UTC timestamp
LocalTime(start_date, utc_offset) ==
    LET t == start_date.day * 24 + start_date.hour + utc_offset
    IN  [day |-> t \div 24, hour |-> t % 24]

OnDay(p, d) ==
    [start_date |-> [day |-> d, hour |-> p.hour],
     start_date_local |-> LocalTime([day |-> d, hour |-> p.hour], p.utc_offset),
     moving_time |-> p.moving_time,
     average_heartrate |-> p.average_heartrate,
     suffer_score |-> p.suffer_score,
     average_watts |-> p.average_watts,
     weighted_average_watts |-> p.weighted_average_watts]

LoadActivityInputs ==
    SeqsUpTo({ OnDay(p, d) : p \in LoadProfiles, d \in 0..MaxLoadDay }, MaxLoadActs)

\* the time and power streams handed to calculateBestPowerForDuration
MaxSamples == 3
MaxSeconds == 6

TimeValues == {0, 1, 5, 14, 15, 20}
PowerValues == {NULL, 0, 1, 100, 301}
ConstantWatts == {0, 150, 250}
WindowTargets == {1, 3, 5, 15}

NonDecreasing(t) == \A i \in 1..(Len(t) - 1) : t[i] <= t[i + 1]

\* irregularly sampled time streams: ascending, at most MaxSamples samples
TimeStreams ==
    { u \in SeqsUpTo(TimeValues, MaxSamples) : NonDecreasing(u) }

\* n seconds at a constant p watts, one sample per second from 0 to n
ConstantStream(n, p) ==
    [timeData  |-> [i \in 1..(n + 1) |-> i - 1],
     powerData |-> [i \in 1..(n + 1) |-> p]]

ConstantStreams ==
    { ConstantStream(n, p) : n \in 1..MaxSeconds, p \in ConstantWatts }

\* every combination of missing, zero and present sensor fields
SensorCombos ==
    [start_date : {[day |-> 0, hour |-> 9]},
     start_date_local : {[day |-> 0, hour |-> 9]},
     moving_time : {NULL, 0, 3600},
     average_heartrate : {NULL, 50, 150, 200},
     suffer_score : {NULL, 0, 45},
     average_watts : {NULL, 0, 200},
     weighted_average_watts : {NULL, 220}]

\* the options argument: the defaults, and invalid configurations
OptionInputs ==
    { DEFAULT_OPTIONS,
      [DEFAULT_OPTIONS EXCEPT !.gender = "female"],
      [DEFAULT_OPTIONS EXCEPT !.ftp = 0],
      [DEFAULT_OPTIONS EXCEPT !.ftp = -100],
      [DEFAULT_OPTIONS EXCEPT !.maxHeartRate = 60],
      [DEFAULT_OPTIONS EXCEPT !.restingHeartRate = 190, !.maxHeartRate = 60] }

ScoreInputs == [activity : SensorCombos, options : OptionInputs]

FitIdle ==
    /\ dailyLoads = <<>>
    /\ cfg = DEFAULT_CONFIG
    /\ tz = [base |-> 0, kind |-> "none", at |-> 0]
    /\ fpc = "off"
    /\ currentDate = 0
    /\ ctl = 0
    /\ atl = 0
    /\ results = <<>>
    /\ fitStats = NoStats

LoadIdle ==
    /\ loadActs = <<>>
    /\ lpc = "off"
    /\ dailyActivities = <<>>
    /\ loadOut = <<>>

WinIdle ==
    /\ argTime = <<>>
    /\ argPower = <<>>
    /\ argTarget = 0
    /\ wpc = "off"
    /\ bestOut = NULL

ScoreIdle ==
    /\ scoreIn = [activity |-> NULL, options |-> DEFAULT_OPTIONS]
    /\ spc = "off"
    /\ scoreOut = NoScore

CurveIdle ==
    /\ activities = <<>>
    /\ cpc = "off"
    /\ primaryCurve = NoCurve
    /\ syncCurve = NoCurve
    /\ asyncCurve = NoCurve
    /\ fetchLog = <<>>
    /\ fetchOutcome = NoOutcome
    /\ ftpOut = NULL

ScanIdle ==
    /\ scanTime = <<>>
    /\ scanPower = <<>>
    /\ scanTarget = 0
    /\ kpc = "off"
    /\ scanEnd = 0
    /\ scanStart = 0
    /\ scanBest = <<0, 1>>
    /\ scanOut = NULL

EstIdle ==
    /\ estActivity = NULL
    /\ estSeconds = 0
    /\ epc = "off"
    /\ estOut = NULL

ViewIdle ==
    /\ storeActivities = <<>>
    /\ selectedYear = NULL
    /\ primaryPeriod = "1y"
    /\ viewCurve = NoCurve
    /\ calculatingPrimary = FALSE
    /\ pending = {}
    /\ invocations = 0
    /\ vpc = "off"

InitFit ==
    /\ dailyLoads \in DailyLoadInputs
    /\ cfg \in Configs
    /\ tz \in Zones
    /\ fpc = "idle"
    /\ currentDate = 0
    /\ ctl = 0
    /\ atl = 0
    /\ results = <<>>
    /\ fitStats = NoStats
    /\ LoadIdle
    /\ CurveIdle
    /\ WinIdle
    /\ ScoreIdle
    /\ ScanIdle
    /\ EstIdle
    /\ ViewIdle

InitLoad ==
    /\ loadActs \in LoadActivityInputs
    /\ lpc = "idle"
    /\ dailyActivities = <<>>
    /\ loadOut = <<>>
    /\ FitIdle
    /\ CurveIdle
    /\ WinIdle
    /\ ScoreIdle
    /\ ScanIdle
    /\ EstIdle
    /\ ViewIdle

InitCurve ==
    /\ activities \in ActivityInputs
    /\ cpc = "idle"
    /\ primaryCurve = NoCurve
    /\ syncCurve = NoCurve
    /\ asyncCurve = NoCurve
    /\ fetchLog = <<>>
    /\ fetchOutcome = NoOutcome
    /\ ftpOut = NULL
    /\ FitIdle
    /\ LoadIdle
    /\ WinIdle
    /\ ScoreIdle
    /\ ScanIdle
    /\ EstIdle
    /\ ViewIdle

InitWin ==
    /\ \/ /\ argTime \in TimeStreams
          /\ argPower \in [1..Len(argTime) -> PowerValues]
       \/ \E st \in ConstantStreams :
             /\ argTime = st.timeData
             /\ argPower = st.powerData
    /\ argTarget \in WindowTargets
    /\ wpc = "idle"
    /\ bestOut = NULL
    /\ FitIdle
    /\ LoadIdle
    /\ CurveIdle
    /\ ScoreIdle
    /\ ScanIdle
    /\ EstIdle
    /\ ViewIdle

InitScore ==
    /\ scoreIn \in ScoreInputs
    /\ spc = "idle"
    /\ scoreOut = NoScore
    /\ FitIdle
    /\ LoadIdle
    /\ CurveIdle
    /\ WinIdle
    /\ ScanIdle
    /\ EstIdle
    /\ ViewIdle

NextFit == FitCall \/ FitLoop \/ FitReturn \/ ReadStats

NextLoad == LoadCall \/ LoadScoreDay \/ LoadReturn

NextCurve == ComputePrimaryCurve \/ FetchResolve \/ FetchReject \/ EstimateFTP

SpecFit == InitFit /\ [][NextFit]_vars

SpecLoad == InitLoad /\ [][NextLoad]_vars

NextWin == BestPowerCall

NextScore == ScoreActivity \/ CallTSS \/ CallTRIMP

SpecCurve == InitCurve /\ [][NextCurve]_vars

SpecWin == InitWin /\ [][NextWin]_vars

SpecScore == InitScore /\ [][NextScore]_vars

Init == InitFit \/ InitLoad \/ InitCurve \/ InitWin \/ InitScore

Next == NextFit \/ NextLoad \/ NextCurve \/ NextWin \/ NextScore

Spec == Init /\ [][Next]_vars

-----------------------------------------------------------------------------
(***************************************************************************)
(* Direct calls of estimateBestPowerForDuration                            *)
(***************************************************************************)

\* the fields of an activity that estimateBestPowerForDuration reads
EstActivities ==
    [moving_time            : {NULL, 0, 60, 100, 3600},
     average_watts          : {NULL, 0, 200},
     weighted_average_watts : {NULL, 0, 240},
     max_watts              : {NULL, 0, 150, 500}]

EstDurations == {5, 30, 60, 61, 120, 1800, 3600, 7200}

\* a call estimateBestPowerForDuration(activity, durationSeconds)
EstimateCall ==
    /\ epc = "idle"
    /\ estOut' = estimateBestPowerForDuration(estActivity, estSeconds)
    /\ epc' = "done"
    /\ UNCHANGED <<estActivity, estSeconds, fitVars, loadVars, curveVars,
                   winVars, scoreVars, scanVars, viewVars>>

InitEst ==
    /\ estActivity \in EstActivities
    /\ estSeconds \in EstDurations
    /\ epc = "idle"
    /\ estOut = NULL
    /\ FitIdle
    /\ LoadIdle
    /\ CurveIdle
    /\ WinIdle
    /\ ScoreIdle
    /\ ScanIdle
    /\ ViewIdle

NextEst == EstimateCall

SpecEst == InitEst /\ [][NextEst]_vars

\* the three engine functions, each called once on its own inputs
InitEngine == InitFit \/ InitLoad \/ InitCurve

NextEngine == NextFit \/ NextLoad \/ NextCurve

SpecEngine == InitEngine /\ [][NextEngine]_vars

-----------------------------------------------------------------------------
(***************************************************************************)
(* The scan of calculateBestPowerForDuration, one iteration per step       *)
(* Indices are 1-based: scanStart is windowStart + 1 and scanEnd is the    *)
(* windowEnd + 1 of the iteration about to run.                            *)
(***************************************************************************)

\* lines 47-57: the early returns, then bestAvgPower = 0, windowStart = 0
ScanEnter ==
    /\ kpc = "idle"
    /\ IF \/ Len(scanTime) < 2 \/ Len(scanPower) < 2
          \/ scanTime[Len(scanTime)] - scanTime[1] < scanTarget
       THEN /\ scanOut' = NULL
            /\ kpc' = "done"
            /\ UNCHANGED <<scanEnd, scanStart, scanBest>>
       ELSE /\ kpc' = "scan"
            /\ scanEnd' = 1
            /\ scanStart' = 1
            /\ scanBest' = <<0, 1>>
            /\ UNCHANGED scanOut
    /\ UNCHANGED <<scanTime, scanPower, scanTarget, fitVars, loadVars,
                   curveVars, winVars, scoreVars, estVars, viewVars>>

\* lines 60-101: one iteration of for (windowEnd ...)
ScanStep ==
    /\ kpc = "scan"
    /\ scanEnd <= Len(scanTime)
    /\ LET ws == AdvanceStart(scanTime, scanStart, scanEnd,
                              scanTime[scanEnd] - scanTarget)
           windowDuration == scanTime[scanEnd] - scanTime[ws]
           w == WindowSum(scanPower, ws, scanEnd)
           better ==
               /\ 10 * windowDuration >= 9 * scanTarget
               /\ w[2] > 0
               /\ w[1] * scanBest[2] > scanBest[1] * w[2]
       IN  /\ scanStart' = ws
           /\ scanBest' = IF better THEN w ELSE scanBest
    /\ scanEnd' = scanEnd + 1
    /\ UNCHANGED <<scanTime, scanPower, scanTarget, kpc, scanOut, fitVars,
                   loadVars, curveVars, winVars, scoreVars, estVars, viewVars>>

\* line 103: the loop is over
ScanReturn ==
    /\ kpc = "scan"
    /\ scanEnd > Len(scanTime)
    /\ scanOut' = IF scanBest[1] > 0
                  THEN RoundDiv(scanBest[1], scanBest[2]) ELSE NULL
    /\ kpc' = "done"
    /\ UNCHANGED <<scanTime, scanPower, scanTarget, scanEnd, scanStart,
                   scanBest, fitVars, loadVars, curveVars, winVars,
                   scoreVars, estVars, viewVars>>

\* the arrays are taken as they come: nothing checks that timeData ascends
ScanTimes == SeqsUpTo(TimeValues, MaxSamples)
ScanPowers == {NULL, 100}
ScanTargets == {5, 15}

InitScan ==
    /\ scanTime \in ScanTimes
    /\ scanPower \in [1..Len(scanTime) -> ScanPowers]
    /\ scanTarget \in ScanTargets
    /\ kpc = "idle"
    /\ scanEnd = 0
    /\ scanStart = 0
    /\ scanBest = <<0, 1>>
    /\ scanOut = NULL
    /\ FitIdle
    /\ LoadIdle
    /\ CurveIdle
    /\ WinIdle
    /\ ScoreIdle
    /\ EstIdle
    /\ ViewIdle

NextScan == ScanEnter \/ ScanStep \/ ScanReturn

SpecScan == InitScan /\ [][NextScan]_vars

-----------------------------------------------------------------------------
(***************************************************************************)
(* PowerCurveView: the watcher of lines 112-118 and the invocations of     *)
(* computePrimaryCurve it starts.  Each invocation runs to its await       *)
(* (line 77) within the step that starts it and is resumed by the          *)
(* completion of its own fetch; several can be suspended at once.          *)
(* A start_date is the number of its day, years having 365 days from       *)
(* day 0 = 1 January 2024.                                                 *)
(***************************************************************************)

MaxInvocations == 3

\* new Date(): the day the view is used on
ViewToday == 800

YearOfDay(d) == 2024 + (d \div 365)

ViewRide(i, day, seconds, watts) ==
    [id |-> i, type |-> "Ride", sport_type |-> "Ride",
     moving_time |-> seconds, average_watts |-> watts,
     weighted_average_watts |-> NULL, max_watts |-> NULL,
     start_date |-> day]

\* what fetchAllActivities can deliver: rides of 20, 200 and 500 days ago
ViewStores ==
    { <<ViewRide(1, 780, 3600, 200)>>,
      <<ViewRide(1, 780, 3600, 200), ViewRide(2, 600, 7200, 180)>>,
      <<ViewRide(1, 600, 7200, 180), ViewRide(2, 300, 3600, 260)>> }

PeriodChoices == {"90d", "1y", "all"}
YearChoices == {NULL, 2025}

\* periodOptions.find((o) => o.value === period)?.label
PeriodLabel(period) ==
    CASE period = "90d" -> "90 Days"
      [] period = "3m"  -> "3 Months"
      [] period = "6m"  -> "6 Months"
      [] period = "1y"  -> "1 Year"
      [] period = "all" -> "All Time"

\* lines 66-68: `${selectedYear} - ${label}` when a year is selected
LabelFor(year, period) ==
    IF year = NULL THEN PeriodLabel(period)
    ELSE CASE period = "90d" -> "2025 - 90 Days"
           [] period = "1y"  -> "2025 - 1 Year"
           [] period = "all" -> "2025 - All Time"

\* filterActivitiesByYear
filterActivitiesByYear(acts, year) ==
    SelectSeq(acts, LAMBDA a : YearOfDay(a.start_date) = year)

\* filterActivitiesByPeriod: 'all' keeps everything, the others keep the
\* activities that started on or after the cutoff
filterActivitiesByPeriod(acts, period) ==
    IF period = "all" THEN acts
    ELSE LET cutoffDate == CASE period = "1y"  -> ViewToday - 365
                             [] period = "90d" -> ViewToday - 90
         IN  SelectSeq(acts, LAMBDA a : a.start_date >= cutoffDate)

\* the store's computed hasAllActivities: allActivities.length > 0
hasAllActivities(allActivities) == Len(allActivities) > 0

\* lines 52-56: the computed yearFilteredActivities
YearFiltered(allActivities, year) ==
    IF ~hasAllActivities(allActivities) THEN <<>>
    ELSE IF year = NULL THEN allActivities
    ELSE filterActivitiesByYear(allActivities, year)

\* lines 59-77: computePrimaryCurve up to its await, for the values the
\* refs have when the watcher runs
InvokePrimary(allActivities, year, period) ==
    LET yearFilteredActivities == YearFiltered(allActivities, year)
        filtered == filterActivitiesByPeriod(yearFilteredActivities, period)
        label == LabelFor(year, period)
    IN  /\ invocations' = invocations + 1
        /\ IF Len(yearFilteredActivities) = 0
           THEN /\ viewCurve' = NoCurve
                /\ UNCHANGED <<calculatingPrimary, pending>>
           ELSE IF Len(CyclingActivities(filtered)) = 0
           THEN \* calculatePowerCurve returns without a fetch (lines 175-177)
                /\ viewCurve' = EmptyCurve(label)
                /\ calculatingPrimary' = FALSE
                /\ UNCHANGED pending
           ELSE /\ viewCurve' = calculatePowerCurveSync(filtered, label)
                /\ calculatingPrimary' = TRUE
                /\ pending' = pending \cup
                                 {[n      |-> invocations + 1,
                                   acts   |-> filtered,
                                   label  |-> label]}

\* watch(..., { immediate: true }): the first run, at setup
ViewMount ==
    /\ vpc = "setup"
    /\ vpc' = "watching"
    /\ InvokePrimary(storeActivities, selectedYear, primaryPeriod)
    /\ UNCHANGED <<storeActivities, selectedYear,
                   primaryPeriod, fitVars, loadVars, curveVars, winVars,
                   scoreVars, scanVars, estVars>>

\* the user picks another period
SelectPeriod ==
    /\ vpc = "watching"
    /\ invocations < MaxInvocations
    /\ \E p \in PeriodChoices \ {primaryPeriod} :
          /\ primaryPeriod' = p
          /\ InvokePrimary(storeActivities, selectedYear, p)
    /\ UNCHANGED <<storeActivities, selectedYear, vpc,
                   fitVars, loadVars, curveVars, winVars, scoreVars,
                   scanVars, estVars>>

\* the user picks another year, or none
SelectYear ==
    /\ vpc = "watching"
    /\ invocations < MaxInvocations
    /\ \E y \in YearChoices \ {selectedYear} :
          /\ selectedYear' = y
          /\ InvokePrimary(storeActivities, y, primaryPeriod)
    /\ UNCHANGED <<storeActivities, primaryPeriod, vpc,
                   fitVars, loadVars, curveVars, winVars, scoreVars,
                   scanVars, estVars>>

\* the store finishes loading (allActivities.value = await
\* fetchAllActivities()): yearFilteredActivities changes
StoreLoaded ==
    /\ vpc = "watching"
    /\ invocations < MaxInvocations
    /\ storeActivities = <<>>
    /\ \E loaded \in ViewStores :
          /\ storeActivities' = loaded
          /\ InvokePrimary(loaded, selectedYear, primaryPeriod)
    /\ UNCHANGED <<selectedYear, primaryPeriod, vpc,
                   fitVars, loadVars, curveVars, winVars, scoreVars,
                   scanVars, estVars>>

\* getPowerStreamsForActivities(ids) resolves to no stream or to one
\* two-minute stream at 250 W per requested activity
ViewResponses(ids) ==
    { <<>>,
      [k \in DOMAIN ids |->
          [activityId |-> ids[k],
           timeData   |-> <<0, 60, 120>>,
           powerData  |-> <<250, 250, 250>>]] }

\* the fetch of a suspended invocation resolves: lines 77-79 of that
\* invocation
ViewFetchResolve ==
    /\ \E inv \in pending :
          /\ \E resp \in ViewResponses(ActivityIds(inv.acts)) :
                viewCurve' = PowerCurveAfterFetch(inv.acts, inv.label,
                                 [ok |-> TRUE, streams |-> resp])
          /\ pending' = pending \ {inv}
    /\ calculatingPrimary' = FALSE
    /\ UNCHANGED <<storeActivities, selectedYear,
                   primaryPeriod, invocations, vpc, fitVars, loadVars,
                   curveVars, winVars, scoreVars, scanVars, estVars>>

\* the fetch of a suspended invocation fails: caught inside
\* calculatePowerCurve, then lines 77-79 of that invocation
ViewFetchReject ==
    /\ \E inv \in pending :
          /\ viewCurve' = PowerCurveAfterFetch(inv.acts, inv.label,
                              [ok |-> FALSE, streams |-> <<>>])
          /\ pending' = pending \ {inv}
    /\ calculatingPrimary' = FALSE
    /\ UNCHANGED <<storeActivities, selectedYear,
                   primaryPeriod, invocations, vpc, fitVars, loadVars,
                   curveVars, winVars, scoreVars, scanVars, estVars>>

InitView ==
    /\ storeActivities \in ViewStores \cup {<<>>}
    /\ selectedYear = NULL
    /\ primaryPeriod = "1y"
    /\ viewCurve = NoCurve
    /\ calculatingPrimary = FALSE
    /\ pending = {}
    /\ invocations = 0
    /\ vpc = "setup"
    /\ FitIdle
    /\ LoadIdle
    /\ CurveIdle
    /\ WinIdle
    /\ ScoreIdle
    /\ ScanIdle
    /\ EstIdle

NextView ==
    \/ ViewMount \/ SelectPeriod \/ SelectYear \/ StoreLoaded
    \/ ViewFetchResolve \/ ViewFetchReject

SpecView == InitView /\ [][NextView]_vars

\* calculateFitnessMetrics on inputs that repeat dates: up to MaxRepeatLoads
\* entries spread over the two days around the clock change of the zones
MaxRepeatLoads == 3

RepeatInputs ==
    SeqsUpTo([date : {2, 3}, load : {40, 100}], MaxRepeatLoads)

InitFitRepeat ==
    /\ dailyLoads \in RepeatInputs
    /\ cfg \in Configs
    /\ tz \in Zones
    /\ fpc = "idle"
    /\ currentDate = 0
    /\ ctl = 0
    /\ atl = 0
    /\ results = <<>>
    /\ fitStats = NoStats
    /\ LoadIdle
    /\ CurveIdle
    /\ WinIdle
    /\ ScoreIdle
    /\ ScanIdle
    /\ EstIdle
    /\ ViewIdle

SpecFitRepeat == InitFitRepeat /\ [][NextFit]_vars

-----------------------------------------------------------------------------
(***************************************************************************)
(* Properties of calculateFitnessMetrics (checked under SpecFit)           *)
(***************************************************************************)

InputDates == { dailyLoads[i].date : i \in DOMAIN dailyLoads }

MinDate == CHOOSE d \in InputDates : \A e \in InputDates : d <= e
MaxDate == CHOOSE d \in InputDates : \A e \in InputDates : d >= e

\* the loads the input gives for day d
InputLoadsOn(d) ==
    { dailyLoads[i].load : i \in { j \in DOMAIN dailyLoads : dailyLoads[j].date = d } }

\* the load the series must carry on day d: one the input gives, else 0
CarriesInputLoad(e) ==
    IF e.date \in InputDates THEN e.load \in InputLoadsOn(e.date) ELSE e.load = 0

FitReturned == fpc = "done" /\ dailyLoads # <<>>

\* C3: a non-empty input yields exactly one entry per calendar day from the
\* earliest to the latest input date inclusive, strictly ascending, each day
\* carrying its input load and every absent day load 0.
C3_OneEntryPerDay ==
    FitReturned =>
        /\ Len(results) = MaxDate - MinDate + 1
        /\ \A i \in DOMAIN results :
              /\ results[i].date = MinDate + i - 1
              /\ CarriesInputLoad(results[i])

\* the load the recurrence takes on day d (the last input entry of the day)
RefLoad(d) ==
    IF d \in InputDates
    THEN dailyLoads[CHOOSE i \in DOMAIN dailyLoads :
                       /\ dailyLoads[i].date = d
                       /\ \A j \in DOMAIN dailyLoads :
                             dailyLoads[j].date = d => j <= i].load
    ELSE 0

\* the un-rounded state after day d: x[d] = x[d-1]*decay + load[d]*(1-decay)
\* (thousandths; decay in millionths)
RECURSIVE RefState(_, _, _)
RefState(x0, decay, d) ==
    IF d < MinDate THEN x0 * 1000
    ELSE LET prev == RefState(x0, decay, d - 1)
             keep == prev * (decay \div 1000)
                       + (2 * prev * (decay % 1000) + 1000) \div 2000
             gain == 1000000 - decay
             add  == RefLoad(d) * 1000 * (gain \div 1000)
                       + (2 * RefLoad(d) * 1000 * (gain % 1000) + 1000) \div 2000
         IN  (2 * (keep + add) + 1000) \div 2000

RefCtl(d) == RefState(cfg.initialCtl, decayFactor(cfg.ctlTimeConstant), d)
RefAtl(d) == RefState(cfg.initialAtl, decayFactor(cfg.atlTimeConstant), d)

\* C4: the recurrence is applied once per calendar day in ascending order
\* from initialCtl / initialAtl; the emitted ctl / atl of a day are the
\* un-rounded states rounded to one decimal, the rounded values are never
\* fed back, and load is emitted un-rounded.
C4_RecurrencePerDay ==
    FitReturned =>
        /\ Len(results) = MaxDate - MinDate + 1
        /\ \A i \in DOMAIN results :
              LET d == MinDate + i - 1
              IN  /\ results[i].date = d
                  /\ results[i].load = RefLoad(d)
                  /\ results[i].ctl = (2 * RefCtl(d) + 100) \div 200
                  /\ results[i].atl = (2 * RefAtl(d) + 100) \div 200

\* C5 as claimed: in every entry the emitted tsb is exactly the emitted ctl
\* minus the emitted atl.
C5_TsbIsEmittedDifference ==
    \A i \in DOMAIN results :
        results[i].tsb = results[i].ctl - results[i].atl

\* C5 as amended: the emitted tsb is the un-rounded ctl minus the un-rounded
\* atl, rounded to one decimal; it is within 0.1 of the emitted ctl minus
\* the emitted atl.
C5_TsbIsRoundedRawDifference ==
    /\ \A i \in DOMAIN results :
          LET diff == results[i].tsb - (results[i].ctl - results[i].atl)
          IN  diff \in {-1, 0, 1}
    /\ results # <<>> =>
          LET last == results[Len(results)]
          IN  2 * (ctl - atl) + 100 \in
                  (200 * last.tsb) .. (200 * last.tsb + 199)

\* C5 witness: an emitted tsb that differs from emitted ctl - emitted atl
C5_Witness ==
    /\ fpc = "done"
    /\ \E i \in DOMAIN results :
          results[i].tsb # results[i].ctl - results[i].atl

\* C6: with non-negative initial values, positive time constants and
\* non-negative loads, every emitted ctl and atl is >= 0.
C6_NonNegative ==
    ( /\ cfg.initialCtl >= 0 /\ cfg.initialAtl >= 0
      /\ cfg.ctlTimeConstant > 0 /\ cfg.atlTimeConstant > 0
      /\ \A i \in DOMAIN dailyLoads : dailyLoads[i].load >= 0 )
    => \A i \in DOMAIN results : results[i].ctl >= 0 /\ results[i].atl >= 0

\* C6 witness: a returned series with a positive load, positive ctl and atl
\* and a negative tsb
C6_Witness ==
    /\ FitReturned
    /\ \E i \in DOMAIN results :
          /\ results[i].load > 0
          /\ results[i].ctl > 0 /\ results[i].atl > 0
          /\ results[i].tsb < 0

-----------------------------------------------------------------------------
(***************************************************************************)
(* Properties of activitiesToDailyLoads (checked under SpecLoad)           *)
(***************************************************************************)

LoadReturned == lpc = "done"

\* the tier order with "present" read as "not null"
TierLoadIfNotNull(a) ==
    LET movingTime == IF a.moving_time = NULL THEN 0 ELSE a.moving_time
    IN  IF a.weighted_average_watts # NULL \/ a.average_watts # NULL
        THEN calculateTSS(movingTime,
                 IF a.weighted_average_watts # NULL
                 THEN a.weighted_average_watts ELSE a.average_watts,
                 DEFAULT_OPTIONS.ftp)
        ELSE IF a.average_heartrate # NULL
        THEN calculateTRIMP(movingTime, a.average_heartrate,
                 DEFAULT_OPTIONS.restingHeartRate,
                 DEFAULT_OPTIONS.maxHeartRate, DEFAULT_OPTIONS.gender)
        ELSE IF a.suffer_score # NULL /\ a.suffer_score > 0
        THEN a.suffer_score
        ELSE (2 * movingTime + 120) \div 240

\* the tier order with "present" read as "neither null nor 0"
TierLoadIfNonZero(a) ==
    LET has(v) == v # NULL /\ v # 0
        movingTime == IF has(a.moving_time) THEN a.moving_time ELSE 0
    IN  IF has(a.weighted_average_watts) \/ has(a.average_watts)
        THEN calculateTSS(movingTime,
                 IF has(a.weighted_average_watts)
                 THEN a.weighted_average_watts ELSE a.average_watts,
                 DEFAULT_OPTIONS.ftp)
        ELSE IF has(a.average_heartrate)
        THEN calculateTRIMP(movingTime, a.average_heartrate,
                 DEFAULT_OPTIONS.restingHeartRate,
                 DEFAULT_OPTIONS.maxHeartRate, DEFAULT_OPTIONS.gender)
        ELSE IF has(a.suffer_score) /\ a.suffer_score > 0
        THEN a.suffer_score
        ELSE (2 * movingTime + 120) \div 240

\* the sum over the input activities of day d of what Score gives each
DayTotal(d, Score(_)) ==
    SeqSum([i \in DOMAIN loadActs |->
               IF loadActs[i].start_date.day = d THEN Score(loadActs[i]) ELSE 0])

InputDays == { loadActs[i].start_date.day : i \in DOMAIN loadActs }

\* C8: one entry per distinct day on which an input activity starts, none
\* for another day, no date twice, each load the sum of the day's activity
\* loads, entries strictly ascending by date whatever the input order.
C8_OneSummedEntryPerDay ==
    LoadReturned =>
        /\ { loadOut[k].date : k \in DOMAIN loadOut } = InputDays
        /\ Len(loadOut) = Cardinality(InputDays)
        /\ \A k \in DOMAIN loadOut :
              /\ k > 1 => loadOut[k - 1].date < loadOut[k].date
              /\ loadOut[k].load =
                    DayTotal(loadOut[k].date,
                             LAMBDA a : ActivityLoad(a, DEFAULT_OPTIONS))

\* C8 witness: activities given in descending date order, returned ascending
C8_Witness ==
    /\ LoadReturned
    /\ Len(loadActs) = 2
    /\ loadActs[1].start_date.day > loadActs[2].start_date.day
    /\ Len(loadOut) = 2
    /\ loadOut[1].load > 0 /\ loadOut[2].load > 0

\* C8 witness of the summing: two activities of one day in one entry
C8_WitnessSameDay ==
    /\ LoadReturned
    /\ Len(loadActs) = 2
    /\ loadActs[1].start_date.day = loadActs[2].start_date.day
    /\ Len(loadOut) = 1
    /\ loadOut[1].load > ActivityLoad(loadActs[1], DEFAULT_OPTIONS)
    /\ loadOut[1].load > ActivityLoad(loadActs[2], DEFAULT_OPTIONS)

-----------------------------------------------------------------------------
(***************************************************************************)
(* Properties of calculatePowerCurve (checked under SpecCurve)             *)
(***************************************************************************)

\* both entry points have returned for the same activities
CurveReturned == cpc = "done" /\ activities # <<>>

\* calculatePowerCurve went through the fetch and returned
Fetched == cpc = "done" /\ fetchLog # <<>>

PointsOf(curve) == { curve.points[i] : i \in DOMAIN curve.points }

\* C1: for every standard duration for which calculatePowerCurveSync emits a
\* point, calculatePowerCurve emits a point of that duration with power >=
\* the synchronous one, whatever the fetch answered.
C1_MonotonicRefinement ==
    CurveReturned =>
        \A p \in PointsOf(syncCurve) :
            \E q \in PointsOf(asyncCurve) :
                q.duration = p.duration /\ q.power >= p.power

\* C2: when the fetch fails, calculatePowerCurve completes and returns
\* exactly the curve of calculatePowerCurveSync for the same activities and
\* label, every point with fromStream = false.
C2_FetchFailureDegrades ==
    /\ (cpc = "done" /\ ~fetchOutcome.ok) =>
          /\ asyncCurve = syncCurve
          /\ primaryCurve = syncCurve
          /\ \A q \in PointsOf(asyncCurve) : ~q.fromStream
    /\ cpc = "awaiting" => ENABLED FetchReject

\* C2 witness: a failed fetch after which the curve has points
C2_Witness ==
    /\ cpc = "done"
    /\ ~fetchOutcome.ok
    /\ Len(syncCurve.points) > 0
    /\ Len(asyncCurve.points) > 0

\* the value the stream path gives for one stream, 0 for null
StreamValue(st, seconds) ==
    LET v == calculateBestPowerForDuration(st.timeData, st.powerData, seconds)
    IN  IF v = NULL THEN 0 ELSE v

\* the value the estimation path gives for one activity, 0 for null
EstimateValue(a, seconds) ==
    LET v == estimateBestPowerForDuration(a, seconds)
    IN  IF v = NULL THEN 0 ELSE v

SetMax(S) == IF S = {} THEN 0 ELSE CHOOSE m \in S : \A x \in S : x <= m

FetchedStreams == { fetchOutcome.streams[i] : i \in DOMAIN fetchOutcome.streams }

Candidates ==
    { activities[i] : i \in { j \in DOMAIN activities :
                                /\ isCyclingActivity(activities[j])
                                /\ hasPowerData(activities[j]) } }

Unstreamed ==
    { a \in Candidates : \A st \in FetchedStreams : st.activityId # a.id }

BestStream(seconds)   == SetMax({ StreamValue(st, seconds) : st \in FetchedStreams })
BestEstimate(seconds) == SetMax({ EstimateValue(a, seconds) : a \in Unstreamed })

\* C9: per standard duration the emitted power is the maximum of the best
\* sliding-window value over the fetched streams and the best estimate over
\* the candidates without a stream; fromStream holds iff the stream path
\* won (a tie keeps the stream); the point names an activity that produced
\* the winning value.
C9_MergeRule ==
    Fetched =>
        \A k \in DOMAIN POWER_CURVE_INTERVALS :
            LET seconds == POWER_CURVE_INTERVALS[k]
                viaStream == BestStream(seconds)
                viaEstimate == BestEstimate(seconds)
                at == { q \in PointsOf(asyncCurve) : q.duration = seconds }
            IN  /\ (at # {}) <=> (viaStream > 0 \/ viaEstimate > 0)
                /\ \A q \in at :
                      /\ q.power = IF viaStream >= viaEstimate
                                   THEN viaStream ELSE viaEstimate
                      /\ q.fromStream <=> (viaStream >= viaEstimate)
                      /\ q.fromStream =>
                            \E st \in FetchedStreams :
                                /\ st.activityId = q.activityId
                                /\ StreamValue(st, seconds) = q.power
                      /\ ~q.fromStream =>
                            \E a \in Unstreamed :
                                /\ a.id = q.activityId
                                /\ EstimateValue(a, seconds) = q.power

\* C9 witness: a point won by a stream whose value equals the best estimate
\* and a point of the same curve won by an estimate
C9_Witness ==
    /\ Fetched
    /\ \E q \in PointsOf(asyncCurve) :
          /\ q.fromStream
          /\ BestEstimate(q.duration) = q.power
    /\ \E q \in PointsOf(asyncCurve) : ~q.fromStream

\* C9, second case: an estimate that beats a positive stream value
C9_WitnessEstimateBeatsStream ==
    /\ Fetched
    /\ \E q \in PointsOf(asyncCurve) :
          /\ ~q.fromStream
          /\ BestStream(q.duration) > 0

\* C10: no point with fromStream = false names an activity for which the
\* fetch returned a stream, whatever the stream contains.
C10_StreamedNeverEstimated ==
    \A q \in PointsOf(asyncCurve) :
        ~q.fromStream =>
            \A st \in FetchedStreams : st.activityId # q.activityId

\* C10 witness: an activity whose fetched stream gives nothing for a
\* duration for which its summary fields give an estimate, next to a point
\* estimated from another activity
C10_Witness ==
    /\ Fetched
    /\ \E q \in PointsOf(asyncCurve), a \in Candidates :
          /\ ~q.fromStream
          /\ a \notin Unstreamed
          /\ EstimateValue(a, q.duration) > q.power

-----------------------------------------------------------------------------
(***************************************************************************)
(* Which durations get a point (checked under SpecCurve)                   *)
(***************************************************************************)

\* activity.moving_time || 0 of the input activity with this id
MovingTimeOf(id) ==
    SetMax({ OrElse(a.moving_time, 0) :
               a \in { activities[i] : i \in { j \in DOMAIN activities :
                                                  activities[j].id = id } } })

\* lastTime - firstTime of a stream of at least two samples, else 0
StreamSpan(st) ==
    IF Len(st.timeData) < 2 THEN 0
    ELSE st.timeData[Len(st.timeData)] - st.timeData[1]

\* C11 as claimed: a point of duration T is in the result of either entry
\* point only if some input activity has moving time >= T.
C11_PointNeedsMovingTime ==
    CurveReturned =>
        \A q \in PointsOf(syncCurve) \cup PointsOf(asyncCurve) :
            \E i \in DOMAIN activities :
                OrElse(activities[i].moving_time, 0) >= q.duration

\* C11 as amended: an estimated point of duration T names a qualifying
\* activity of moving time >= T (in calculatePowerCurve: one without a
\* fetched stream); a point taken from a stream names an activity with a
\* fetched stream whose time span, last time minus first time, is >= T.
C11_PointNeedsDuration ==
    CurveReturned =>
        /\ \A q \in PointsOf(syncCurve) :
              /\ ~q.fromStream
              /\ \E a \in Candidates : a.id = q.activityId
              /\ MovingTimeOf(q.activityId) >= q.duration
        /\ \A q \in PointsOf(asyncCurve) :
              IF q.fromStream
              THEN \E st \in FetchedStreams :
                      /\ st.activityId = q.activityId
                      /\ StreamSpan(st) >= q.duration
              ELSE /\ \E a \in Unstreamed : a.id = q.activityId
                   /\ MovingTimeOf(q.activityId) >= q.duration

\* C11 witness: a fetched curve with an estimated point and a stream point,
\* in which the durations above the longest activity and stream are absent
C11_Witness ==
    /\ Fetched
    /\ \E q \in PointsOf(asyncCurve) : q.fromStream
    /\ \E q \in PointsOf(asyncCurve) : ~q.fromStream
    /\ \A q \in PointsOf(asyncCurve) : q.duration <= 3600
    /\ \E q \in PointsOf(syncCurve) : q.duration = 3600
    /\ \A q \in PointsOf(syncCurve) : q.duration # 7200

-----------------------------------------------------------------------------
(***************************************************************************)
(* The sliding window against a brute-force reference (checked under       *)
(* SpecWin)                                                                *)
(***************************************************************************)

BestPowerReturned == wpc = "done"

\* the earliest index s with time[s] >= time[e] - T
RefStart(e) ==
    CHOOSE s \in 1..e :
        /\ argTime[s] >= argTime[e] - argTarget
        /\ \A r \in 1..(s - 1) : argTime[r] < argTime[e] - argTarget

\* the valid samples of the window s..e
RefValid(s, e) ==
    { i \in s..e : argPower[i] # NULL /\ argPower[i] >= 0 }

RECURSIVE RefSum(_)
RefSum(S) ==
    IF S = {} THEN 0
    ELSE LET i == CHOOSE j \in S : TRUE
         IN  argPower[i] + RefSum(S \ {i})

\* the end indices whose window spans at least 0.9 T and holds a valid sample
RefEnds ==
    { e \in 1..Len(argTime) :
        /\ 10 * (argTime[e] - argTime[RefStart(e)]) >= 9 * argTarget
        /\ RefValid(RefStart(e), e) # {} }

\* the means of those windows as fractions <<sum, count>>
RefMeans ==
    { <<RefSum(RefValid(RefStart(e), e)),
        Cardinality(RefValid(RefStart(e), e))>> : e \in RefEnds }

RefMaxMean ==
    CHOOSE m \in RefMeans : \A x \in RefMeans : x[1] * m[2] <= m[1] * x[2]

RefTooShort ==
    \/ Len(argTime) < 2
    \/ argTime[Len(argTime)] - argTime[1] < argTarget

\* C12 as claimed: the result is the rounded maximum of the window means of
\* the brute-force reference, and null exactly when the total span is
\* shorter than T or no window qualifies.
C12_MatchesBruteForce ==
    BestPowerReturned =>
        bestOut = IF RefTooShort \/ RefMeans = {} THEN NULL
                  ELSE RoundDiv(RefMaxMean[1], RefMaxMean[2])

\* C12 as amended: the same, except that the result is also null when the
\* maximum of the window means is 0.
C12_MatchesBruteForceAboveZero ==
    BestPowerReturned =>
        bestOut = IF RefTooShort \/ RefMeans = {} THEN NULL
                  ELSE IF RefMaxMean[1] = 0 THEN NULL
                  ELSE RoundDiv(RefMaxMean[1], RefMaxMean[2])

\* C12 witness: the only window that qualifies spans 14 s of the 15 s asked
\* for and holds an invalid sample that is left out of the mean
C12_Witness ==
    /\ BestPowerReturned
    /\ argTarget = 15
    /\ argTime = <<1, 15, 20>>
    /\ argPower = <<NULL, 301, 100>>
    /\ bestOut = 301

\* C12, second case: a mean that is rounded, the window start having moved
C12_WitnessRounded ==
    /\ BestPowerReturned
    /\ argTarget = 5
    /\ argTime = <<0, 15, 20>>
    /\ argPower = <<0, 100, 301>>
    /\ bestOut = 201

\* the arguments are n seconds at a constant p watts, one sample per second
IsConstantStream(n, p) ==
    [timeData |-> argTime, powerData |-> argPower] = ConstantStream(n, p)

\* C13 as claimed: for n seconds at a constant p watts the result is p for
\* every duration T <= n.
C13_ConstantPower ==
    BestPowerReturned =>
        \A n \in 1..MaxSeconds, pw \in ConstantWatts :
            (IsConstantStream(n, pw) /\ argTarget <= n) => bestOut = pw

\* C13 as amended: the same for p > 0; at 0 watts the result is null.
C13_ConstantPositivePower ==
    BestPowerReturned =>
        \A n \in 1..MaxSeconds, pw \in ConstantWatts :
            (IsConstantStream(n, pw) /\ argTarget <= n) =>
                bestOut = IF pw > 0 THEN pw ELSE NULL

\* C13 witness: 5 seconds at 250 W asked for its full length
C13_Witness ==
    /\ BestPowerReturned
    /\ IsConstantStream(5, 250)
    /\ argTarget = 5
    /\ bestOut = 250

-----------------------------------------------------------------------------
(***************************************************************************)
(* estimateFTP (checked under SpecCurve)                                   *)
(***************************************************************************)

FtpEstimated == cpc = "shown"

PointsAt(seconds) == { q \in PointsOf(primaryCurve) : q.duration = seconds }

\* C14: with a 1200 s point in the curve the estimate is round(0.95 x its
\* power) whatever else the curve holds; without one it is the power of the
\* 3600 s point, unscaled; without either it is null.
C14_FtpRule ==
    FtpEstimated =>
        /\ \A q \in PointsAt(1200) : ftpOut = RoundDiv(95 * q.power, 100)
        /\ PointsAt(1200) = {} => \A q \in PointsAt(3600) : ftpOut = q.power
        /\ (PointsAt(1200) = {} /\ PointsAt(3600) = {}) => ftpOut = NULL

\* C14 witness: a curve with a 1200 s and a 3600 s point whose estimate is
\* the scaled 1200 s power and differs from the 3600 s power
C14_Witness ==
    /\ FtpEstimated
    /\ \E q \in PointsAt(1200), r \in PointsAt(3600) :
          /\ ftpOut = RoundDiv(95 * q.power, 100)
          /\ ftpOut # r.power
          /\ ftpOut # q.power

\* C14, second case: a curve with a 3600 s point and no 1200 s point
C14_WitnessHourOnly ==
    /\ FtpEstimated
    /\ PointsAt(1200) = {}
    /\ \E r \in PointsAt(3600) : ftpOut = r.power

\* C14, third case: a curve with points but neither of the two
C14_WitnessNeither ==
    /\ FtpEstimated
    /\ PointsOf(primaryCurve) # {}
    /\ PointsAt(1200) = {} /\ PointsAt(3600) = {}
    /\ ftpOut = NULL

-----------------------------------------------------------------------------
(***************************************************************************)
(* getFitnessTrend (checked under SpecFit)                                 *)
(***************************************************************************)

StatsRead == fpc = "read"

\* C15 as claimed: the trend over N days is the last entry's ctl minus the
\* ctl of the entry N positions before it, and 0 when the series has fewer
\* than 2 entries or fewer than N + 1 entries.
C15_TrendZeroOutOfRange ==
    StatsRead =>
        LET n == Len(results)
        IN  fitStats.fitnessTrend =
                IF n < 2 \/ n < fitStats.days + 1 THEN 0
                ELSE results[n].ctl - results[n - fitStats.days].ctl

\* C15 as amended: with fewer than N + 1 entries (and at least 2) the trend
\* is the last entry's ctl minus the first entry's ctl; it is 0 only for
\* fewer than 2 entries.
C15_TrendClampedToFirst ==
    StatsRead =>
        LET n == Len(results)
        IN  fitStats.fitnessTrend =
                IF n < 2 THEN 0
                ELSE IF n < fitStats.days + 1
                THEN results[n].ctl - results[1].ctl
                ELSE results[n].ctl - results[n - fitStats.days].ctl

\* C15 witness: a series shorter than the 28 days asked for whose trend is
\* the non-zero change since its first entry
C15_Witness ==
    /\ StatsRead
    /\ fitStats.days = 28
    /\ Len(results) >= 2
    /\ fitStats.fitnessTrend # 0
    /\ fitStats.fitnessTrend = results[Len(results)].ctl - results[1].ctl

\* C15, second case: the position N back is inside the series and is not
\* its first entry
C15_WitnessInRange ==
    /\ StatsRead
    /\ fitStats.days = 1
    /\ Len(results) >= 3
    /\ fitStats.fitnessTrend # 0
    /\ fitStats.fitnessTrend # results[Len(results)].ctl - results[1].ctl

-----------------------------------------------------------------------------
(***************************************************************************)
(* The day an activity is counted on (checked under SpecLoad)              *)
(***************************************************************************)

\* the local start date of an input activity
LocalDay(a) == a.start_date_local.day

LocalDays == { LocalDay(loadActs[i]) : i \in DOMAIN loadActs }

\* the sum of the loads of the input activities whose local start date is d
LocalDayTotal(d) ==
    SeqSum([i \in DOMAIN loadActs |->
               IF LocalDay(loadActs[i]) = d
               THEN ActivityLoad(loadActs[i], DEFAULT_OPTIONS) ELSE 0])

\* C16: every activity is counted on exactly one day, its local start date:
\* the returned dates are the local start dates of the input, and each
\* entry's load is the sum over the activities that started on that local
\* date, also for an activity whose UTC timestamp falls on another date.
C16_CountedOnLocalDate ==
    LoadReturned =>
        /\ { loadOut[k].date : k \in DOMAIN loadOut } = LocalDays
        /\ \A k \in DOMAIN loadOut :
              loadOut[k].load = LocalDayTotal(loadOut[k].date)

-----------------------------------------------------------------------------
(***************************************************************************)
(* Loads are never negative; invalid configuration; empty input            *)
(***************************************************************************)

ActivityScored == spc = "done" /\ scoreOut.fn = "activity"

\* C17: whatever fields of an activity are missing, the load it contributes
\* is >= 0 and the scoring completes; so is every load of the returned
\* daily series.
C17_LoadNonNegative ==
    /\ ActivityScored => scoreOut.value >= 0
    /\ spc = "idle" => ENABLED ScoreActivity
    /\ \A k \in DOMAIN loadOut : loadOut[k].load >= 0
    /\ lpc \in {"idle", "score"} => ENABLED NextLoad

\* C17 witness: an activity with no sensor field and no duration scored 0
C17_Witness ==
    /\ ActivityScored
    /\ scoreIn.activity.moving_time = NULL
    /\ scoreIn.activity.average_heartrate = NULL
    /\ scoreIn.activity.suffer_score = NULL
    /\ scoreIn.activity.average_watts = NULL
    /\ scoreIn.activity.weighted_average_watts = NULL
    /\ scoreOut.value = 0

\* C17, second case: a heart rate below the resting heart rate scored 0
C17_WitnessBelowResting ==
    /\ ActivityScored
    /\ scoreIn.options = DEFAULT_OPTIONS
    /\ scoreIn.activity.moving_time = 3600
    /\ scoreIn.activity.average_heartrate = 50
    /\ ~Truthy(scoreIn.activity.average_watts)
    /\ ~Truthy(scoreIn.activity.weighted_average_watts)
    /\ scoreOut.value = 0

\* C17, third case: a daily series with a positive load
C17_WitnessDaily ==
    /\ LoadReturned
    /\ \E k \in DOMAIN loadOut : loadOut[k].load > 0

\* C18: calculateTSS returns 0 whenever ftp <= 0 or durationSeconds <= 0 and
\* calculateTRIMP returns 0 whenever maxHeartRate <= restingHeartRate or
\* avgHeartRate < restingHeartRate; both calls complete with a number.
C18_InvalidConfigurationYieldsZero ==
    /\ (spc = "done" /\ scoreOut.fn = "calculateTSS"
            /\ (scoreOut.args[3] <= 0 \/ scoreOut.args[1] <= 0))
          => scoreOut.value = 0
    /\ (spc = "done" /\ scoreOut.fn = "calculateTRIMP"
            /\ (scoreOut.args[4] <= scoreOut.args[3]
                   \/ scoreOut.args[2] < scoreOut.args[3]))
          => scoreOut.value = 0
    /\ spc = "idle" => (ENABLED CallTSS /\ ENABLED CallTRIMP)

\* C18 witness: calculateTSS called with a negative duration and a valid ftp
C18_Witness ==
    /\ spc = "done"
    /\ scoreOut.fn = "calculateTSS"
    /\ scoreOut.args[1] < 0 /\ scoreOut.args[2] > 0 /\ scoreOut.args[3] > 0
    /\ scoreOut.value = 0

\* C18, second case: calculateTSS called with ftp <= 0
C18_WitnessFtp ==
    /\ spc = "done"
    /\ scoreOut.fn = "calculateTSS"
    /\ scoreOut.args[1] > 0 /\ scoreOut.args[2] > 0 /\ scoreOut.args[3] < 0
    /\ scoreOut.value = 0

\* C18, third case: calculateTRIMP called with maxHeartRate below
\* restingHeartRate and a heart rate above both
C18_WitnessHeartRate ==
    /\ spc = "done"
    /\ scoreOut.fn = "calculateTRIMP"
    /\ scoreOut.args[1] > 0
    /\ scoreOut.args[4] < scoreOut.args[3]
    /\ scoreOut.args[2] > scoreOut.args[3]
    /\ scoreOut.value = 0

C19_WitnessCurve ==
    /\ cpc = "shown"
    /\ Len(activities) = 2
    /\ Candidates = {}
    /\ \E i \in DOMAIN activities : hasPowerData(activities[i])
    /\ \E i \in DOMAIN activities : isCyclingActivity(activities[i])
    /\ asyncCurve = EmptyCurve(PrimaryLabel)
    /\ ftpOut = NULL

-----------------------------------------------------------------------------
(***************************************************************************)
(* C21: the stream fetch of one invocation of calculatePowerCurve          *)
(***************************************************************************)

\* the ids of the candidates, in the order of the input
CandidateIds == Ascending({ a.id : a \in Candidates })

\* calculatePowerCurve has been entered (it is suspended or has returned)
CurveEntered == cpc \in {"awaiting", "done", "shown"} /\ activities # <<>>

\* C21: one invocation of calculatePowerCurve issues at most one fetch
\* request: exactly one, carrying the ids of all candidates, when there is a
\* candidate, and none when there is none; a failed fetch is not re-issued.
C21_OneBatchedFetch ==
    /\ Len(fetchLog) <= 1
    /\ CurveEntered =>
          IF Candidates = {} THEN fetchLog = <<>>
          ELSE fetchLog = <<CandidateIds>>
    /\ (cpc \in {"done", "shown"} /\ ~fetchOutcome.ok) => Len(fetchLog) = 1

\* C21 witness: the fetch for two candidates failed and was asked once
C21_Witness ==
    /\ cpc = "done"
    /\ ~fetchOutcome.ok
    /\ Cardinality(Candidates) = 2
    /\ fetchLog = <<CandidateIds>>

\* C21 witness: activities without a candidate, returned without a fetch
C21_WitnessNoCandidates ==
    /\ cpc = "done"
    /\ activities # <<>>
    /\ Candidates = {}
    /\ fetchLog = <<>>

-----------------------------------------------------------------------------
(***************************************************************************)
(* C22: the shape of a returned PowerCurve                                 *)
(***************************************************************************)

StandardDurations ==
    {5, 15, 30, 60, 120, 180, 300, 480, 600, 900, 1200, 1800, 2700, 3600, 7200}

WellFormedCurve(curve) ==
    /\ \A i \in DOMAIN curve.points :
          /\ curve.points[i].duration \in StandardDurations
          /\ curve.points[i].power \in Nat
          /\ curve.points[i].power > 0
    /\ \A i, j \in DOMAIN curve.points :
          i < j => curve.points[i].duration < curve.points[j].duration

\* C22: a curve returned by calculatePowerCurve or calculatePowerCurveSync
\* has points of standard durations only, in strictly ascending order of
\* duration (so at most one per duration), each with an integer power > 0.
C22_CurveWellFormed ==
    /\ WellFormedCurve(syncCurve)
    /\ WellFormedCurve(asyncCurve)
    /\ WellFormedCurve(primaryCurve)

\* C22 witness: a curve of several points returned after a fetch, one of its
\* points taken from a stream and one estimated
C22_Witness ==
    /\ Fetched
    /\ fetchOutcome.ok
    /\ Len(asyncCurve.points) >= 2
    /\ \E p, q \in PointsOf(asyncCurve) : p.fromStream /\ ~q.fromStream
    /\ Len(syncCurve.points) >= 2

-----------------------------------------------------------------------------
(***************************************************************************)
(* C23: only qualifying activities influence the curve                     *)
(***************************************************************************)

CyclingLike ==
    {"Ride", "VirtualRide", "GravelRide", "MountainBikeRide", "EBikeRide"}

\* a recognized cycling-like type and an average or normalized power reading
Qualifies(a) ==
    /\ a.type = "Ride" \/ a.sport_type \in CyclingLike
    /\ \/ a.average_watts # NULL /\ a.average_watts # 0
       \/ a.weighted_average_watts # NULL /\ a.weighted_average_watts # 0

\* the input without its non-qualifying activities (the ids are kept)
QualifyingOnly == SelectSeq(activities, Qualifies)

NamesQualifying(curve) ==
    \A p \in PointsOf(curve) :
        \E i \in DOMAIN activities :
            activities[i].id = p.activityId /\ Qualifies(activities[i])

\* C23: every point of either entry point, whatever the fetch answered,
\* names a qualifying input activity, and the curves are those of the input
\* with the non-qualifying activities removed.
C23_OnlyQualifyingCount ==
    CurveReturned =>
        /\ NamesQualifying(syncCurve)
        /\ NamesQualifying(asyncCurve)
        /\ syncCurve = calculatePowerCurveSync(QualifyingOnly, PrimaryLabel)
        /\ asyncCurve = IF QualifyingOnly = <<>>
                        THEN EmptyCurve(PrimaryLabel)
                        ELSE PowerCurveAfterFetch(QualifyingOnly, PrimaryLabel,
                                                  fetchOutcome)
        /\ fetchLog # <<>> =>
               fetchLog[1] = [i \in DOMAIN QualifyingOnly |-> QualifyingOnly[i].id]

\* C23 witness: a run next to a ride; the run has the higher power and the
\* curve has points, all of the ride
C23_Witness ==
    /\ CurveReturned
    /\ \E i, j \in DOMAIN activities :
          /\ ~Qualifies(activities[i])
          /\ activities[i].average_watts = 300
          /\ Qualifies(activities[j])
    /\ Len(asyncCurve.points) > 0
    /\ Len(syncCurve.points) > 0

-----------------------------------------------------------------------------
(***************************************************************************)
(* C24: calculatePowerCurve with no stream is calculatePowerCurveSync      *)
(***************************************************************************)

\* the fetch resolved with an empty list of streams
FetchedNothing ==
    /\ cpc \in {"done", "shown"}
    /\ fetchLog # <<>>
    /\ fetchOutcome.ok
    /\ fetchOutcome.streams = <<>>

\* C24: when the fetch resolves without any stream, calculatePowerCurve
\* returns the curve of calculatePowerCurveSync for the same activities and
\* label; every point of calculatePowerCurveSync has fromStream = false.
C24_NoStreamEqualsSync ==
    /\ FetchedNothing => asyncCurve = syncCurve
    /\ \A q \in PointsOf(syncCurve) : ~q.fromStream

\* C24 witness: the fetch for two candidates with equal estimates resolved
\* empty, and the curve has points
C24_Witness ==
    /\ FetchedNothing
    /\ Cardinality(Candidates) = 2
    /\ \E a, b \in Candidates :
          a.id # b.id /\ EstimateValue(a, 5) = EstimateValue(b, 5)
    /\ Len(asyncCurve.points) > 0

-----------------------------------------------------------------------------
(***************************************************************************)
(* C25: the cases of estimateBestPowerForDuration (checked under SpecEst)  *)
(***************************************************************************)

EstimateReturned == epc = "done"

\* the activity's moving time, 0 when it has none
EstD == IF estActivity.moving_time = NULL THEN 0 ELSE estActivity.moving_time

\* the normalized power when the activity has one, else the average power;
\* 0 when it has neither
EstP ==
    IF estActivity.weighted_average_watts \notin {NULL, 0}
    THEN estActivity.weighted_average_watts
    ELSE IF estActivity.average_watts \notin {NULL, 0}
    THEN estActivity.average_watts
    ELSE 0

EstMaxKnown == estActivity.max_watts \notin {NULL, 0}

EstNoEstimate == estSeconds > EstD \/ EstP = 0
EstInterpolates == ~EstNoEstimate /\ estSeconds <= 60 /\ EstMaxKnown
EstScales ==
    ~EstNoEstimate /\ ~EstInterpolates /\ 2 * estSeconds < EstD

C25_WitnessScaled ==
    EstimateReturned /\ EstScales /\ estOut > EstP

\* C25 witness: a duration between half the activity and the whole of it,
\* without max power: the power unchanged
C25_WitnessUnchanged ==
    /\ EstimateReturned
    /\ ~EstNoEstimate /\ ~EstInterpolates /\ ~EstScales
    /\ estSeconds < EstD
    /\ estOut = EstP

\* C25 witness: a duration one second over the moving time
C25_WitnessTooLong ==
    EstimateReturned /\ EstP > 0 /\ estSeconds = EstD + 1 /\ estOut = NULL

-----------------------------------------------------------------------------
(***************************************************************************)
(* C26: the engine functions leave their arguments alone                   *)
(* (checked under SpecEngine)                                              *)
(***************************************************************************)

\* C26: no step of calculateFitnessMetrics changes dailyLoads or the
\* configuration, no step of activitiesToDailyLoads changes the activities,
\* and no step of calculatePowerCurve / calculatePowerCurveSync changes the
\* activities or, once they have arrived, the fetched streams.
C26_ArgumentsUntouched ==
    [][/\ dailyLoads' = dailyLoads
       /\ cfg' = cfg
       /\ loadActs' = loadActs
       /\ activities' = activities
       /\ cpc # "awaiting" => fetchOutcome' = fetchOutcome]_vars

\* C26 witness: calculateFitnessMetrics returned date-ordered metrics for an
\* array that is still out of date order
C26_Witness ==
    /\ FitReturned
    /\ Len(dailyLoads) = 2
    /\ dailyLoads[1].date > dailyLoads[2].date
    /\ Len(results) >= 2
    /\ \A i \in 1..(Len(results) - 1) : results[i].date <= results[i + 1].date

\* C26 witness: calculatePowerCurve returned a curve from streams that came
\* in the opposite order of the request, and they are still in that order
C26_WitnessStreams ==
    /\ Fetched
    /\ Len(fetchOutcome.streams) = 2
    /\ fetchOutcome.streams[1].activityId > fetchOutcome.streams[2].activityId
    /\ Len(asyncCurve.points) > 0

\* C26 witness: activitiesToDailyLoads returned sorted loads for activities
\* still out of date order
C26_WitnessActivities ==
    /\ LoadReturned
    /\ Len(loadActs) = 2
    /\ loadActs[1].start_date.day > loadActs[2].start_date.day
    /\ Len(loadOut) = 2

-----------------------------------------------------------------------------
(***************************************************************************)
(* C27: the window-start pointer of the scan (checked under SpecScan)      *)
(***************************************************************************)

\* C27: every iteration of the scan leaves windowStart where it was or
\* moves it forward, never past the iteration's windowEnd; windowEnd goes
\* up by one per iteration, and the scan returns when every sample has been
\* the window end once.  windowStart therefore advances at most (number of
\* samples - 1) times.
C27_PointerNeverRetreats ==
    [][kpc = "scan" =>
          /\ scanStart' >= scanStart
          /\ 1 <= scanStart
          /\ scanStart <= scanEnd
          /\ kpc' = "scan" =>
                /\ scanEnd <= Len(scanTime)
                /\ scanStart' <= scanEnd
                /\ scanEnd' = scanEnd + 1
          /\ kpc' = "done" =>
                /\ scanEnd = Len(scanTime) + 1
                /\ scanStart' - 1 <= Len(scanTime) - 1]_vars

\* C27 witness: a scan that is over and has moved the window start forward
C27_Witness ==
    /\ kpc = "done"
    /\ scanEnd = Len(scanTime) + 1
    /\ Len(scanTime) = 3
    /\ scanStart > 1

\* C27 witness: a time stream that does not ascend, scanned to its end
C27_WitnessUnordered ==
    /\ kpc = "done"
    /\ scanEnd = Len(scanTime) + 1
    /\ ~NonDecreasing(scanTime)
    /\ scanStart > 1

-----------------------------------------------------------------------------
(***************************************************************************)
(* C28: what the view displays once no invocation is suspended             *)
(* (checked under SpecView)                                                *)
(***************************************************************************)

\* the activities of the current selection
LatestFiltered ==
    filterActivitiesByPeriod(YearFiltered(storeActivities, selectedYear),
                             primaryPeriod)

\* the label of the curve of the current selection
LatestLabel ==
    IF Len(YearFiltered(storeActivities, selectedYear)) = 0 THEN ""
    ELSE LabelFor(selectedYear, primaryPeriod)

ViewSettled == vpc = "watching" /\ pending = {}

\* C28: once no invocation of computePrimaryCurve is suspended, the curve
\* on display is one computed for the current period, year and activities:
\* it carries their label and names only activities of the current
\* selection.
C28_LatestInputsDisplayed ==
    ViewSettled =>
        /\ viewCurve.period = LatestLabel
        /\ \A p \in PointsOf(viewCurve) :
              \E i \in DOMAIN LatestFiltered :
                  LatestFiltered[i].id = p.activityId

-----------------------------------------------------------------------------
(***************************************************************************)
(* C29: each day's ctl / atl lies between the previous value and the load  *)
(* (checked under SpecFit; ctl, atl in thousandths, loads in units)        *)
(***************************************************************************)

\* this step is one iteration of the loop: it emitted an entry
DayStep == fpc = "loop" /\ Len(results') = Len(results) + 1

\* the load the iteration used
StepLoad == results'[Len(results')].load * 1000

\* the largest load of the input
LargestLoad == SetMax({ dailyLoads[i].load : i \in DOMAIN dailyLoads })

Between(lo, x, hi) == Min2(lo, hi) <= x /\ x <= Max2(lo, hi)

\* C29: with positive time constants, in every iteration the new un-rounded
\* ctl lies between the previous ctl and the day's load, and the new atl
\* between the previous atl and the load; on a day of load 0 neither
\* increases and a positive one shrinks; neither exceeds the larger of its
\* initial value and the largest load of the input.
C29_BetweenPreviousAndLoad ==
    [][DayStep =>
          /\ Between(ctl, ctl', StepLoad)
          /\ Between(atl, atl', StepLoad)
          /\ StepLoad = 0 =>
                /\ ctl' <= ctl /\ (ctl > 0 => ctl' < ctl)
                /\ atl' <= atl /\ (atl > 0 => atl' < atl)
          /\ ctl' <= 1000 * Max2(cfg.initialCtl, LargestLoad)
          /\ atl' <= 1000 * Max2(cfg.initialAtl, LargestLoad)]_vars

\* C29 witness: a gap day on which positive ctl and atl have shrunk after a
\* day with load
C29_Witness ==
    /\ FitReturned
    /\ \E i \in 2..Len(results) :
          /\ results[i].load = 0
          /\ results[i - 1].load > 0
          /\ 0 < results[i].ctl /\ results[i].ctl < results[i - 1].ctl
          /\ 0 < results[i].atl /\ results[i].atl < results[i - 1].atl

\* C29 witness: a load below the initial values pulls ctl and atl down
\* towards it
C29_WitnessAboveLoad ==
    /\ FitReturned
    /\ cfg.initialCtl = 50
    /\ results[1].load = 40
    /\ 400 < results[1].ctl /\ results[1].ctl < 500
    /\ 400 < results[1].atl /\ results[1].atl < 800

-----------------------------------------------------------------------------
(***************************************************************************)
(* C30: several input entries with the same date                           *)
(***************************************************************************)

\* the dates that several input entries carry
RepeatedDates ==
    { d \in InputDates :
        \E i, j \in DOMAIN dailyLoads :
            i # j /\ dailyLoads[i].date = d /\ dailyLoads[j].date = d }

EntriesOn(d) == { i \in DOMAIN results : results[i].date = d }

\* C30: a date that several input entries carry has exactly one entry in
\* the output, and every entry's load is that of the last input entry of
\* its date (0 when there is none): the loads of a date are not summed, and
\* nothing else of the input order matters.
C30_LastEntryOfDateWins ==
    FitReturned =>
        /\ \A d \in RepeatedDates : Cardinality(EntriesOn(d)) = 1
        /\ \A i \in DOMAIN results : results[i].load = RefLoad(results[i].date)

====
